---- MODULE Spec2Model ----
(***************************************************************************)
(* Verification model of the document classifier and the financial-field   *)
(* extractors of src/modal/extract_pdf.py.                                  *)
(*                                                                          *)
(* Texts, filenames and table cells are TLA+ strings; Python's re module is *)
(* modelled by a backtracking matcher over a regular-expression syntax tree *)
(* that returns the matches at a position in Python's priority order, so    *)
(* that re.search(...).group(1) is the first match of the left-most start.  *)
(* Floating-point scores are modelled exactly, as integers in units of      *)
(* 1/ScoreOne;   the three thresholds the code compares scores with         *)
(* (0.3, 0.6 of the specification, 1.0) fall on the same side in binary     *)
(* floating point as in exact arithmetic for every reachable score.         *)
(***************************************************************************)
EXTENDS Integers, Sequences, FiniteSets, TLC

VARIABLES
    pc,              \* position of the call being modelled
    call,            \* the entry point that was called
    text,            \* the document text (input); for _parse_amount, its argument
    lower_text,      \* self.lower_text, set by the constructor
    filename,        \* the file name (input)
    tables,          \* the parsed tables (input): sequence of sequences of rows
    now,             \* the calendar year datetime.now() reports (environment)
    request,         \* extract_pdf: the request body, a map from its keys to JSON values
    locals,          \* extract_pdf: the local variables of the handler
    calls,           \* extract_pdf: the library calls made so far, in order
    idx,             \* loop index of the loop the call is in
    scores,          \* classify: doc_type |-> [score, reasons], filled in registry order
    classification,  \* the ClassificationResult classify returned, if it has
    text_amounts,    \* extract_amounts: result of the text strategy
    amounts,         \* extract_amounts: the merged map
    table_amounts,   \* extract_amounts: per table, the map the table strategy returned
    tax_year,        \* the year the call settled on
    assets,          \* BalanceSheetExtractor.extract: what _extract_assets_section returned
    liabilities,     \* ... what _extract_liabilities_section returned
    equity,          \* ... what _extract_equity_section returned
    company_info,    \* VirginiaForm500Extractor.extract: what _extract_company_info returned
    income_data,     \* ... what _extract_income_data returned
    schedule_500fed, \* ... what _extract_schedule_500fed returned
    apportionment,   \* ... what _extract_apportionment returned
    red_flags,       \* self.red_flags
    extraction_notes,\* self.extraction_notes
    record           \* the record the call returned, if it has; the records, in order,
                     \* when the extractor is called again

\* the inputs of a call and the clock
endpointVars == <<request, locals, calls>>
inputVars == <<call, text, lower_text, filename, tables, now, endpointVars>>
\* the extractor object's own state
virginiaVars == <<company_info, income_data, schedule_500fed, apportionment>>
sectionVars == <<assets, liabilities, equity, virginiaVars>>
extractorVars == <<tax_year, sectionVars, red_flags, extraction_notes>>

vars == <<pc, inputVars, idx, scores, classification, text_amounts, amounts, table_amounts,
          extractorVars, record>>

\* Python's None where the other values are strings
None == "None"

\* an optional value that is not a string: Null is None, Some(x) is x
Null == <<>>
Some(x) == <<x>>
Val(o) == o[1]

\* the least of a non-empty set of numbers
Least(S) == CHOOSE k \in S : \A j \in S : k <= j

\* the greatest of a non-empty set of numbers
Greatest(S) == CHOOSE k \in S : \A j \in S : j <= k

\* the first of a sequence of optional values that is not Null; Null if none
FirstSome(values) ==
    LET having == {k \in DOMAIN values : values[k] # Null}
    IN  IF having = {} THEN Null ELSE values[Least(having)]

\* ------------------------------------------------------------------------
\* Characters
\* ------------------------------------------------------------------------

Chars(str) == {SubSeq(str, k, k) : k \in 1..Len(str)}

LowerAlphabet == "abcdefghijklmnopqrstuvwxyz"
UpperAlphabet == "ABCDEFGHIJKLMNOPQRSTUVWXYZ"

Digit == Chars("0123456789")
LowerAZ == Chars(LowerAlphabet)
UpperAZ == Chars(UpperAlphabet)
\* \s of Python's re (without the vertical tab, which a TLA+ string cannot hold)
Space == {" ", "\t", "\n", "\r", "\f"}
\* \w of Python's re, restricted to ASCII
Word == LowerAZ \cup UpperAZ \cup Digit \cup {"_"}

\* str.lower() on one character
LowerChar == [c \in UpperAZ |->
                LET k == CHOOSE n \in 1..26 : SubSeq(UpperAlphabet, n, n) = c
                IN  SubSeq(LowerAlphabet, k, k)]

RECURSIVE LowerRange(_, _, _)
LowerRange(s, lo, hi) ==
    IF lo > hi THEN ""
    ELSE IF lo = hi
         THEN LET c == SubSeq(s, lo, lo) IN IF c \in UpperAZ THEN LowerChar[c] ELSE c
    ELSE LET mid == (lo + hi) \div 2
         IN  LowerRange(s, lo, mid) \o LowerRange(s, mid + 1, hi)

\* str.lower()
Lower(s) == LowerRange(s, 1, Len(s))

\* the string with every character that is in drop removed, and every other
\* character c replaced by sub[c] where sub has one
RECURSIVE ReplaceRange(_, _, _, _, _)
ReplaceRange(s, drop, sub, lo, hi) ==
    IF lo > hi THEN ""
    ELSE IF lo = hi
         THEN LET c == SubSeq(s, lo, lo)
              IN  IF c \in drop THEN "" ELSE IF c \in DOMAIN sub THEN sub[c] ELSE c
    ELSE LET mid == (lo + hi) \div 2
         IN  ReplaceRange(s, drop, sub, lo, mid) \o ReplaceRange(s, drop, sub, mid + 1, hi)

\* a chain of single-character str.replace() calls
ReplaceChars(s, drop, sub) == ReplaceRange(s, drop, sub, 1, Len(s))

\* str.strip()
Strip(s) ==
    LET inked == {k \in 1..Len(s) : SubSeq(s, k, k) \notin Space}
    IN  IF inked = {} THEN "" ELSE SubSeq(s, Least(inked), Greatest(inked))

\* needle in haystack
Contains(haystack, needle) ==
    \E i \in 1..(Len(haystack) - Len(needle) + 1) :
        SubSeq(haystack, i, i + Len(needle) - 1) = needle

\* ------------------------------------------------------------------------
\* Regular expressions (Python re): syntax tree and backtracking matcher
\* ------------------------------------------------------------------------

\* MAXREPEAT: more than any text is long
Unbounded == 2 ^ 30

L(str) == [t |-> "lit", s |-> str]
In(S) == [t |-> "in", cs |-> S]
NotIn(S) == [t |-> "notin", cs |-> S]
Dot == NotIn({"\n"})
Cat(rs) == [t |-> "cat", rs |-> rs]
Alt(rs) == [t |-> "alt", rs |-> rs]
Rep(r, lo, hi, greedy) == [t |-> "rep", r |-> r, lo |-> lo, hi |-> hi, greedy |-> greedy]
Star(r) == Rep(r, 0, Unbounded, TRUE)
Plus(r) == Rep(r, 1, Unbounded, TRUE)
Opt(r) == Rep(r, 0, 1, TRUE)
LazyStar(r) == Rep(r, 0, Unbounded, FALSE)
Times(r, lo, hi) == Rep(r, lo, hi, TRUE)
Grp(r) == [t |-> "grp", r |-> r]
NotAhead(r) == [t |-> "nla", r |-> r]
WordBoundary == [t |-> "wb"]
\* ^ : start of the string, and with re.MULTILINE also after each newline
Bol(multiline) == [t |-> "bol", multiline |-> multiline]

IsWordAt(s, i) == i >= 1 /\ i <= Len(s) /\ SubSeq(s, i, i) \in Word

NoGroup == <<0, 0>>

\* Match(r, s, i, g): the matches of r in s that start at position i, in the
\* order Python's backtracking tries them; each is [e |-> position after the
\* match, g |-> <<start, end>> of group 1 (end exclusive), or NoGroup].
RECURSIVE Match(_, _, _, _), MatchCat(_, _, _, _, _), CatEach(_, _, _, _, _, _),
          MatchAlt(_, _, _, _, _), MatchRep(_, _, _, _, _), RepEach(_, _, _, _, _, _)

CharOk(r, s, j) ==
    IF r.t = "in" THEN SubSeq(s, j, j) \in r.cs ELSE SubSeq(s, j, j) \notin r.cs

\* the first position of j..last that the class r does not match, or last;
\* a run that goes on is halved, so that a long run is not a long recursion
RECURSIVE SpanEnd(_, _, _, _), SpanFrom(_, _, _, _, _)
SpanEnd(r, s, j, last) ==
    IF j = last \/ ~CharOk(r, s, j) THEN j
    ELSE IF last = j + 1 THEN last
    ELSE SpanFrom(SpanEnd(r, s, j + 1, (j + 1 + last) \div 2), (j + 1 + last) \div 2, r, s, last)

\* left is where the run stops before mid, or mid
SpanFrom(left, mid, r, s, last) ==
    IF left < mid THEN left ELSE SpanEnd(r, s, mid, last)

\* a repeat of a single character class: the run of matching characters from
\* i (at most r.hi of them) is taken whole by a greedy repeat and given back
\* one character at a time; a lazy repeat grows from r.lo
MatchCharRep(r, s, i, g) ==
    LET last == IF i + r.hi < Len(s) + 1 THEN i + r.hi ELSE Len(s) + 1
        stop == SpanEnd(r.r, s, i, last)
        n == stop - i
    IN  IF n < r.lo THEN <<>>
        ELSE [k \in 1..(n - r.lo + 1) |->
                [e |-> IF r.greedy THEN stop - (k - 1) ELSE i + r.lo + (k - 1), g |-> g]]

Match(r, s, i, g) ==
    CASE r.t = "lit" ->
            LET n == Len(r.s)
            IN  IF i + n - 1 <= Len(s) /\ SubSeq(s, i, i + n - 1) = r.s
                THEN <<[e |-> i + n, g |-> g]>> ELSE <<>>
      [] r.t = "in" ->
            IF i <= Len(s) /\ SubSeq(s, i, i) \in r.cs
            THEN <<[e |-> i + 1, g |-> g]>> ELSE <<>>
      [] r.t = "notin" ->
            IF i <= Len(s) /\ SubSeq(s, i, i) \notin r.cs
            THEN <<[e |-> i + 1, g |-> g]>> ELSE <<>>
      [] r.t = "cat" -> MatchCat(r.rs, 1, s, i, g)
      [] r.t = "alt" -> MatchAlt(r.rs, 1, s, i, g)
      [] r.t = "rep" ->
            IF r.r.t \in {"in", "notin"} THEN MatchCharRep(r, s, i, g)
            ELSE MatchRep(r, s, i, g, 0)
      [] r.t = "grp" ->
            LET ms == Match(r.r, s, i, g)
            IN  [k \in 1..Len(ms) |-> [e |-> ms[k].e, g |-> <<i, ms[k].e>>]]
      [] r.t = "nla" ->
            IF Match(r.r, s, i, g) = <<>> THEN <<[e |-> i, g |-> g]>> ELSE <<>>
      [] r.t = "wb" ->
            IF IsWordAt(s, i - 1) # IsWordAt(s, i) THEN <<[e |-> i, g |-> g]>> ELSE <<>>
      [] r.t = "bol" ->
            IF i = 1 \/ (r.multiline /\ SubSeq(s, i - 1, i - 1) = "\n")
            THEN <<[e |-> i, g |-> g]>> ELSE <<>>

\* rs[k..] after rs[1..k-1] matched up to i
MatchCat(rs, k, s, i, g) ==
    IF k > Len(rs) THEN <<[e |-> i, g |-> g]>>
    ELSE LET ms == Match(rs[k], s, i, g)
         IN  CatEach(ms, 1, Len(ms), rs, k + 1, s)

\* the continuations of the matches ms[lo..hi], in order
CatEach(ms, lo, hi, rs, k, s) ==
    IF lo > hi THEN <<>>
    ELSE IF lo = hi THEN MatchCat(rs, k, s, ms[lo].e, ms[lo].g)
    ELSE LET mid == (lo + hi) \div 2
         IN  CatEach(ms, lo, mid, rs, k, s) \o CatEach(ms, mid + 1, hi, rs, k, s)

MatchAlt(rs, k, s, i, g) ==
    IF k > Len(rs) THEN <<>>
    ELSE Match(rs[k], s, i, g) \o MatchAlt(rs, k + 1, s, i, g)

\* count iterations of r.r are done; a greedy repeat tries one more first
MatchRep(r, s, i, g, count) ==
    LET stop == IF count >= r.lo THEN <<[e |-> i, g |-> g]>> ELSE <<>>
        ms == IF count < r.hi THEN Match(r.r, s, i, g) ELSE <<>>
        more == RepEach(ms, 1, Len(ms), r, s, count + 1)
    IN  IF r.greedy THEN more \o stop ELSE stop \o more

RepEach(ms, lo, hi, r, s, count) ==
    IF lo > hi THEN <<>>
    ELSE IF lo = hi THEN MatchRep(r, s, ms[lo].e, ms[lo].g, count)
    ELSE LET mid == (lo + hi) \div 2
         IN  RepEach(ms, lo, mid, r, s, count) \o RepEach(ms, mid + 1, hi, r, s, count)

\* the first of the matches of rs[k..] after rs[1..k-1] matched up to i, as
\* a sequence of at most one match: what a search needs of MatchCat, without
\* the matches Python would reach only by backtracking further
RECURSIVE CatFirst(_, _, _, _, _), EachFirst(_, _, _, _, _, _), FirstOr(_, _, _, _, _, _, _)
CatFirst(rs, k, s, i, g) ==
    IF k > Len(rs) THEN <<[e |-> i, g |-> g]>>
    ELSE EachFirst(Match(rs[k], s, i, g), 1, Len(Match(rs[k], s, i, g)), rs, k + 1, s)

\* the first continuation of the matches ms[lo..hi], tried in order: ms[lo],
\* then the two halves of the rest
EachFirst(ms, lo, hi, rs, k, s) ==
    IF lo > hi THEN <<>>
    ELSE FirstOr(CatFirst(rs, k, s, ms[lo].e, ms[lo].g),
                 ms, lo + 1, hi, rs, k, s)

FirstOr(left, ms, lo, hi, rs, k, s) ==
    IF left # <<>> \/ lo > hi THEN left
    ELSE FirstOr(EachFirst(ms, lo, (lo + hi) \div 2, rs, k, s),
                 ms, (lo + hi) \div 2 + 1, hi, rs, k, s)

\* the first match of r in s that starts at position i, if there is one
MatchFirst(r, s, i) ==
    IF r.t = "cat" THEN CatFirst(r.rs, 1, s, i, NoGroup) ELSE Match(r, s, i, NoGroup)

NoMatch == [found |-> FALSE]

\* the match object of the first of the matches ms that start at position i
ObjectOf(ms, s, i) ==
    [found |-> TRUE, start |-> i, end |-> ms[1].e,
     group1 |-> SubSeq(s, ms[1].g[1], ms[1].g[2] - 1)]

\* the match object of the first match at the left-most of the positions
\* hits, which are those that have a match
ObjectAt(hits, r, s, lowered) ==
    IF hits = {} THEN NoMatch
    ELSE ObjectOf(MatchFirst(r, lowered, Least(hits)), s, Least(hits))

\* the first match of r in a text s that is matched as lowered
FirstMatch(r, s, lowered) ==
    ObjectAt({i \in 1..(Len(lowered) + 1) : MatchFirst(r, lowered, i) # <<>>}, r, s, lowered)

\* re.search(r, s)
Search(r, s) == FirstMatch(r, s, s)

\* re.search(r, s) is not None
Matches(r, s) == \E i \in 1..(Len(s) + 1) : MatchFirst(r, s, i) # <<>>

Indices(n) == [k \in 1..n |-> k]

\* int() of a string of decimal digits
DigitValue == [c \in Digit |-> CHOOSE n \in 0..9 : SubSeq("0123456789", n + 1, n + 1) = c]

RECURSIVE ParseDigits(_, _)
ParseDigits(str, n) ==
    IF n = 0 THEN 0 ELSE 10 * ParseDigits(str, n - 1) + DigitValue[SubSeq(str, n, n)]

ParseInt(str) == ParseDigits(str, Len(str))

\* ------------------------------------------------------------------------
\* DocumentClassifier
\* ------------------------------------------------------------------------

\* 1.0 as a score: scores are integers in units of 1/ScoreOne
ScoreOne == 2400

Tenths(n) == n * (ScoreOne \div 10)

\* DOCUMENT_SIGNATURES in enumeration order; weight in tenths
DOCUMENT_SIGNATURES == <<
    [doc_type |-> "form_1120s",
     patterns |-> <<
        Cat(<<L("form"), Star(In(Space)), L("1120"), Opt(In(Space \cup {"-"})), L("s")>>),
        Cat(<<L("u"), Opt(L(".")), L("s"), Opt(L(".")), Star(In(Space)), L("income"), Star(In(Space)), L("tax"), Star(In(Space)), L("return"), Star(Dot), L("s"), Star(In(Space)), L("corporation")>>),
        L("1120s"),
        Cat(<<L("income"), Star(In(Space)), L("tax"), Star(In(Space)), L("return"), Star(Dot), L("small"), Star(In(Space)), L("business"), Star(In(Space)), L("corporation")>>) >>,
     required_fields |-> <<"compensation of officers", "ordinary business income">>,
     structural_signals |-> <<>>,
     entity_type |-> "S-Corporation",
     jurisdiction |-> "Federal",
     weight |-> 10],
    [doc_type |-> "form_1120",
     patterns |-> <<
        Cat(<<L("form"), Star(In(Space)), L("1120"), NotAhead(Cat(<<Opt(In(Space \cup {"-"})), L("s")>>))>>),
        Cat(<<L("u"), Opt(L(".")), L("s"), Opt(L(".")), Star(In(Space)), L("corporation"), Star(In(Space)), L("income"), Star(In(Space)), L("tax"), Star(In(Space)), L("return")>>) >>,
     required_fields |-> <<"taxable income", "total tax">>,
     structural_signals |-> <<>>,
     entity_type |-> "C-Corporation",
     jurisdiction |-> "Federal",
     weight |-> 10],
    [doc_type |-> "form_1065",
     patterns |-> <<
        Cat(<<L("form"), Star(In(Space)), L("1065")>>),
        Cat(<<L("u"), Opt(L(".")), L("s"), Opt(L(".")), Star(In(Space)), L("return"), Star(In(Space)), L("of"), Star(In(Space)), L("partnership"), Star(In(Space)), L("income")>>) >>,
     required_fields |-> <<"guaranteed payments", "ordinary business income">>,
     structural_signals |-> <<>>,
     entity_type |-> "Partnership",
     jurisdiction |-> "Federal",
     weight |-> 10],
    [doc_type |-> "schedule_c",
     patterns |-> <<
        Cat(<<L("schedule"), Star(In(Space)), L("c")>>),
        Cat(<<L("profit"), Star(In(Space)), L("or"), Star(In(Space)), L("loss"), Star(In(Space)), L("from"), Star(In(Space)), L("business")>>) >>,
     required_fields |-> <<"net profit", "gross receipts">>,
     structural_signals |-> <<>>,
     entity_type |-> "Sole Proprietorship",
     jurisdiction |-> "Federal",
     weight |-> 10],
    [doc_type |-> "va_form_500",
     patterns |-> <<
        Cat(<<L("virginia"), Star(Dot), L("form"), Star(In(Space)), L("500")>>),
        Cat(<<L("virginia"), Star(In(Space)), L("corporation"), Star(In(Space)), L("income"), Star(In(Space)), L("tax")>>),
        Cat(<<L("department"), Star(In(Space)), L("of"), Star(In(Space)), L("taxation"), Star(Dot), L("virginia")>>),
        Cat(<<L("va"), Star(In(Space)), L("form"), Star(In(Space)), L("500")>>),
        Cat(<<L("schedule"), Star(In(Space)), L("500adj")>>),
        Cat(<<L("schedule"), Star(In(Space)), L("500fed")>>),
        Cat(<<L("schedule"), Star(In(Space)), L("500a"), WordBoundary>>),
        Cat(<<L("schedule"), Star(In(Space)), L("500ab")>>) >>,
     required_fields |-> <<"federal taxable income", "virginia taxable income">>,
     structural_signals |-> <<>>,
     entity_type |-> "Corporation",
     jurisdiction |-> "VA",
     weight |-> 9],
    [doc_type |-> "balance_sheet",
     patterns |-> <<
        Cat(<<L("balance"), Star(In(Space)), L("sheet")>>),
        Cat(<<L("statement"), Star(In(Space)), L("of"), Star(In(Space)), L("financial"), Star(In(Space)), L("position")>>) >>,
     required_fields |-> <<>>,
     structural_signals |-> <<"assets", "liabilities", "equity">>,
     entity_type |-> None,
     jurisdiction |-> "N/A",
     weight |-> 8],
    [doc_type |-> "income_statement",
     patterns |-> <<
        Cat(<<L("profit"), Star(In(Space)), Alt(<<L("and"), L("&")>>), Star(In(Space)), L("loss")>>),
        Cat(<<L("income"), Star(In(Space)), L("statement")>>),
        Cat(<<L("statement"), Star(In(Space)), L("of"), Star(In(Space)), Alt(<<L("operations"), L("income")>>)>>) >>,
     required_fields |-> <<"revenue", "net income">>,
     structural_signals |-> <<>>,
     entity_type |-> None,
     jurisdiction |-> "N/A",
     weight |-> 7] >>

DocTypes == {DOCUMENT_SIGNATURES[k].doc_type : k \in 1..Len(DOCUMENT_SIGNATURES)}

filename_hints == [d \in DocTypes |->
    CASE d = "form_1120s" -> <<"1120s", "1120-s">>
      [] d = "form_1120" -> <<"1120">>
      [] d = "form_1065" -> <<"1065">>
      [] d = "schedule_c" -> <<"schedule-c", "schedulec", "sched_c">>
      [] d = "va_form_500" -> <<"va_form", "form_500", "virginia">>
      [] d = "balance_sheet" -> <<"balance", "balancesheet">>
      [] d = "income_statement" -> <<"p&l", "profit_loss", "income_stmt">>]

BALANCE_DATE_PATTERNS == <<
    Cat(<<L("as"), Star(In(Space)), L("of"), Star(In(Space)), Grp(Cat(<<Plus(In(Word)), Plus(In(Space)), Times(In(Digit), 1, 2), Opt(L(",")), Star(In(Space)), Times(In(Digit), 4, 4)>>))>>),
    Cat(<<L("as"), Star(In(Space)), L("of"), Star(In(Space)), Grp(Cat(<<Times(In(Digit), 1, 2), L("/"), Times(In(Digit), 1, 2), L("/"), Times(In(Digit), 4, 4)>>))>>),
    Cat(<<L("as"), Star(In(Space)), L("of"), Star(In(Space)), Grp(Cat(<<Times(In(Digit), 4, 4), L("-"), Times(In(Digit), 2, 2), L("-"), Times(In(Digit), 2, 2)>>))>>),
    Cat(<<L("date:"), Star(In(Space)), Grp(Cat(<<Plus(In(Word)), Plus(In(Space)), Times(In(Digit), 1, 2), Opt(L(",")), Star(In(Space)), Times(In(Digit), 4, 4)>>))>>),
    Cat(<<L("through"), Star(In(Space)), Grp(Cat(<<Plus(In(Word)), Plus(In(Space)), Times(In(Digit), 1, 2), Opt(L(",")), Star(In(Space)), Times(In(Digit), 4, 4)>>))>>) >>

YEAR_PATTERNS == <<
    Cat(<<L("tax"), Star(In(Space)), L("year"), Star(In(Space)), Opt(Alt(<<L("beginning"), L("ending")>>)), Star(In(Space)), Grp(Times(In(Digit), 4, 4))>>),
    Cat(<<L("for"), Star(In(Space)), Opt(Cat(<<L("calendar"), Star(In(Space))>>)), L("year"), Star(In(Space)), Grp(Times(In(Digit), 4, 4))>>),
    Cat(<<Grp(Times(In(Digit), 4, 4)), Star(In(Space)), Alt(<<L("form"), L("return")>>)>>),
    Cat(<<L("december"), Star(In(Space)), L("31"), Opt(L(",")), Star(In(Space)), Grp(Times(In(Digit), 4, 4))>>),
    Cat(<<Grp(Times(In(Digit), 4, 4)), Star(In(Space)), L("u"), Opt(L(".")), L("s"), Opt(L(".")), Star(In(Space)), Opt(Cat(<<L("income"), Star(In(Space))>>)), L("tax")>>) >>

MinYear == 2015
MaxYear == 2030

\* mutant: the fraction of the patterns found taken by integer division
PatternChannelFloorDiv(sig, lt) ==
    LET found == SelectSeq(Indices(Len(sig.patterns)),
                           LAMBDA k : Matches(sig.patterns[k], lt))
    IN  [score |-> IF Len(sig.patterns) > 0
                   THEN Tenths(4) * (Len(found) \div Len(sig.patterns)) ELSE 0,
         reasons |-> [j \in 1..Len(found) |-> <<"Matched pattern", found[j]>>]]

\* the pattern channel: 0.4 times the fraction of the patterns found
PatternChannel(sig, lt) ==
    LET found == SelectSeq(Indices(Len(sig.patterns)),
                           LAMBDA k : Matches(sig.patterns[k], lt))
    IN  [score |-> IF Len(sig.patterns) > 0
                   THEN (Tenths(4) * Len(found)) \div Len(sig.patterns) ELSE 0,
         reasons |-> [j \in 1..Len(found) |-> <<"Matched pattern", found[j]>>]]

\* the filename channel: 0.2 once, for the first hint the file name contains
FilenameChannel(sig, fname) ==
    LET hints == filename_hints[sig.doc_type]
        found == SelectSeq(hints, LAMBDA h : Contains(fname, h))
    IN  IF found # <<>>
        THEN [score |-> Tenths(2), reasons |-> <<<<"Filename contains", found[1]>>>>]
        ELSE [score |-> 0, reasons |-> <<>>]

\* the required-field channel: 0.2 times the fraction of the phrases found
RequiredChannel(sig, lt) ==
    LET found == SelectSeq(sig.required_fields, LAMBDA f : Contains(lt, Lower(f)))
    IN  [score |-> IF Len(sig.required_fields) > 0
                   THEN (Tenths(2) * Len(found)) \div Len(sig.required_fields) ELSE 0,
         reasons |-> [j \in 1..Len(found) |-> <<"Found required field", found[j]>>]]

\* mutant: the structural channel worth 0.2 whatever the number of signals
StructuralChannelFlat(sig, lt) ==
    LET found == SelectSeq(sig.structural_signals,
                           LAMBDA w : Matches(Cat(<<WordBoundary, L(w), WordBoundary>>), lt))
    IN  [score |-> IF Len(found) >= 1 THEN Tenths(2) ELSE 0,
         reasons |-> [j \in 1..Len(found) |-> <<"Found structural signal", found[j]>>]]

\* the structural channel: 0.3 for two or more signals as whole words, 0.1 for one
StructuralChannel(sig, lt) ==
    LET found == SelectSeq(sig.structural_signals,
                           LAMBDA w : Matches(Cat(<<WordBoundary, L(w), WordBoundary>>), lt))
    IN  [score |-> IF Len(found) >= 2 THEN Tenths(3)
                   ELSE IF Len(found) = 1 THEN Tenths(1) ELSE 0,
         reasons |-> [j \in 1..Len(found) |-> <<"Found structural signal", found[j]>>]]

\* _calculate_score: the channels' sum times the signature's weight
CalculateScore(sig, lt, fname) ==
    LET p == PatternChannel(sig, lt)
        f == FilenameChannel(sig, fname)
        q == RequiredChannel(sig, lt)
        t == StructuralChannel(sig, lt)
    IN  [score |-> ((p.score + f.score + q.score + t.score) * sig.weight) \div 10,
         reasons |-> p.reasons \o f.reasons \o q.reasons \o t.reasons]

\* mutant: the sanity check on the year left out
InYearRangeUnchecked(year) == TRUE

\* if 2015 <= year <= 2030
InYearRange(year) == MinYear <= year /\ year <= MaxYear

\* _extract_year: the patterns in order, each by its left-most match only
RECURSIVE ExtractYearFrom(_, _)
ExtractYearFrom(k, lt) ==
    IF k > Len(YEAR_PATTERNS) THEN Null
    ELSE LET m == Search(YEAR_PATTERNS[k], lt)
         IN  IF m.found /\ InYearRange(ParseInt(m.group1)) THEN Some(ParseInt(m.group1))
             ELSE ExtractYearFrom(k + 1, lt)

\* mutant: a year is made up when no pattern gives one
ExtractYearDefaulting(lt) ==
    IF ExtractYearFrom(1, lt) = Null THEN Some(MaxYear) ELSE ExtractYearFrom(1, lt)

ExtractYear(lt) == ExtractYearFrom(1, lt)

\* _extract_balance_date_year: the first four digits of the matched date
RECURSIVE ExtractBalanceDateYearFrom(_, _)
ExtractBalanceDateYearFrom(k, lt) ==
    IF k > Len(BALANCE_DATE_PATTERNS) THEN ExtractYear(lt)
    ELSE LET m == Search(BALANCE_DATE_PATTERNS[k], lt)
             y == IF m.found THEN Search(Grp(Times(In(Digit), 4, 4)), m.group1) ELSE NoMatch
         IN  IF y.found /\ InYearRange(ParseInt(y.group1)) THEN Some(ParseInt(y.group1))
             ELSE ExtractBalanceDateYearFrom(k + 1, lt)

ExtractBalanceDateYear(lt) == ExtractBalanceDateYearFrom(1, lt)

\* mutant: the last signature with the greatest score
BestIndexLast(sc) ==
    CHOOSE b \in 1..Len(sc) :
        /\ \A k \in 1..Len(sc) : sc[k].score <= sc[b].score
        /\ \A k \in (b + 1)..Len(sc) : sc[k].score < sc[b].score

\* max(scores.keys(), key=...): the first signature with the greatest score
BestIndex(sc) ==
    CHOOSE b \in 1..Len(sc) :
        /\ \A k \in 1..Len(sc) : sc[k].score <= sc[b].score
        /\ \A k \in 1..(b - 1) : sc[k].score < sc[b].score

\* mutant: a stricter threshold
OtherThresholdHalf == Tenths(5)

\* if best_score < 0.3
OtherThreshold == Tenths(3)

\* mutant: the confidence reported as a percentage
ConfidencePercent(best_score) == best_score * 100

\* confidence_score of a matched signature
Confidence(best_score) == IF best_score < ScoreOne THEN best_score ELSE ScoreOne

\* ------------------------------------------------------------------------
\* Numbers
\* ------------------------------------------------------------------------

\* A float is a record: kind "num" with the value in units of 1/AmountScale,
\* kind "inf" with the sign as value, or kind "nan".  The amounts of the model
\* have at most two decimals, and sums of them are exact in binary floating
\* point for the fractions the inputs use.
AmountScale == 100

\* an empty map of amounts
NoAmounts == [f \in {} |-> 0]

Num(n) == [kind |-> "num", value |-> n]
Zero == Num(0)
NaN == [kind |-> "nan", value |-> 0]

Abs(n) == IF n < 0 THEN 0 - n ELSE n

\* float() of a stripped string with its sign taken off
ParseUnsigned(body, sign) ==
    LET dots == {k \in 1..Len(body) : SubSeq(body, k, k) = "."}
        dot == IF dots = {} THEN Len(body) + 1 ELSE Least(dots)
        whole == SubSeq(body, 1, dot - 1)
        fraction == SubSeq(body, dot + 1, Len(body))
    IN  IF body \in {"inf", "infinity"} THEN Some([kind |-> "inf", value |-> sign])
        ELSE IF body = "nan" THEN Some(NaN)
        ELSE IF /\ Chars(body) \subseteq Digit \cup {"."}
                /\ Cardinality(dots) <= 1
                /\ Len(body) > Cardinality(dots)
             THEN Some(Num(sign * (ParseInt(whole) * AmountScale
                                   + ParseInt(SubSeq(fraction \o "00", 1, 2)))))
        ELSE Null

\* float() of a stripped string
ParseSigned(str) ==
    IF Len(str) > 0 /\ SubSeq(str, 1, 1) = "-" THEN ParseUnsigned(SubSeq(str, 2, Len(str)), 0 - 1)
    ELSE IF Len(str) > 0 /\ SubSeq(str, 1, 1) = "+" THEN ParseUnsigned(SubSeq(str, 2, Len(str)), 1)
    ELSE ParseUnsigned(str, 1)

\* float(str): Null for the ValueError
ParseFloat(given) == ParseSigned(Lower(Strip(given)))

\* -x, x + y, x > 0, x < 0 and bool(x) of floats
FloatNeg(x) == IF x.kind = "nan" THEN x ELSE [kind |-> x.kind, value |-> 0 - x.value]

FloatAdd(x, y) ==
    IF x.kind = "nan" \/ y.kind = "nan" THEN NaN
    ELSE IF x.kind = "inf" /\ y.kind = "inf" THEN (IF x.value = y.value THEN x ELSE NaN)
    ELSE IF x.kind = "inf" THEN x
    ELSE IF y.kind = "inf" THEN y
    ELSE Num(x.value + y.value)

Positive(x) == x.kind # "nan" /\ x.value > 0
Negative(x) == x.kind # "nan" /\ x.value < 0
Truthy(x) == x.kind # "num" \/ x.value # 0

\* x == y of floats: a nan equals nothing
FloatEq(x, y) == x.kind # "nan" /\ x = y

\* ------------------------------------------------------------------------
\* BaseExtractor
\* ------------------------------------------------------------------------

\* ParseAmount with the thousands separators left in
ParseAmountWithSeparators(value_str) ==
    LET bare == Strip(ReplaceChars(value_str, {"$"}, <<>>))
        cleaned == IF "(" \in Chars(bare) /\ ")" \in Chars(bare)
                   THEN "-" \o ReplaceChars(bare, {"(", ")"}, <<>>) ELSE bare
    IN  IF cleaned # "" /\ cleaned # "-" THEN ParseFloat(cleaned) ELSE Null

\* BaseExtractor._parse_amount: the float, or Null for None
ParseAmount(value_str) ==
    LET bare == Strip(ReplaceChars(value_str, {"$", ","}, <<>>))
        cleaned == IF "(" \in Chars(bare) /\ ")" \in Chars(bare)
                   THEN "-" \o ReplaceChars(bare, {"(", ")"}, <<>>) ELSE bare
    IN  IF cleaned # "" /\ cleaned # "-" THEN ParseFloat(cleaned) ELSE Null

\* the rows of all the tables, in the order extract_from_table visits them
RECURSIVE RowsFrom(_, _)
RowsFrom(tbls, k) ==
    IF k > Len(tbls) THEN <<>> ELSE tbls[k].rows \o RowsFrom(tbls, k + 1)

\* for cell in reversed(row[1:]): the first cell that is not empty and parses
CellAmount(row) ==
    FirstSome([k \in 1..(Len(row) - 1) |->
                  IF row[Len(row) + 1 - k] # "" THEN ParseAmount(row[Len(row) + 1 - k])
                  ELSE Null])

\* BaseExtractor.extract_from_table with the default column_index, on the rows
\* of all the tables: the amount of the first row whose first cell matches
\* the label pattern and that has an amount; Null for None
ExtractFromRows(label_pattern, rows) ==
    FirstSome([k \in 1..Len(rows) |->
                  IF Len(rows[k]) >= 2 /\ Matches(label_pattern, Lower(rows[k][1]))
                  THEN CellAmount(rows[k]) ELSE Null])

ExtractFromTable(label_pattern, tbls) == ExtractFromRows(label_pattern, RowsFrom(tbls, 1))

\* ------------------------------------------------------------------------
\* BalanceSheetExtractor: the year
\* ------------------------------------------------------------------------

\* patterns of BalanceSheetExtractor._extract_balance_date
balance_date_patterns == <<
    Cat(<<L("as"), Star(In(Space)), L("of"), Star(In(Space)), Grp(Cat(<<Plus(In(Word)), Plus(In(Space)), Times(In(Digit), 1, 2), Opt(L(",")), Star(In(Space)), Times(In(Digit), 4, 4)>>))>>),
    Cat(<<L("as"), Star(In(Space)), L("of"), Star(In(Space)), Grp(Cat(<<Times(In(Digit), 1, 2), L("/"), Times(In(Digit), 1, 2), L("/"), Times(In(Digit), 4, 4)>>))>>),
    Cat(<<L("as"), Star(In(Space)), L("of"), Star(In(Space)), Grp(Cat(<<Times(In(Digit), 4, 4), L("-"), Times(In(Digit), 2, 2), L("-"), Times(In(Digit), 2, 2)>>))>>),
    Cat(<<L("date:"), Star(In(Space)), Grp(Cat(<<Plus(In(Word)), Plus(In(Space)), Times(In(Digit), 1, 2), Opt(L(",")), Star(In(Space)), Times(In(Digit), 4, 4)>>))>>),
    Cat(<<L("through"), Star(In(Space)), Grp(Cat(<<Plus(In(Word)), Plus(In(Space)), Times(In(Digit), 1, 2), Opt(L(",")), Star(In(Space)), Times(In(Digit), 4, 4)>>))>>) >>

\* the names %B accepts, in calendar order
MonthNames == <<"january", "february", "march", "april", "may", "june", "july",
                "august", "september", "october", "november", "december">>

\* the regular expressions datetime.strptime makes of %B, %d, %m and %Y
MonthNameRx == Alt(<<L("september"), L("february"), L("november"), L("december"),
                     L("january"), L("october"), L("august"), L("march"), L("april"),
                     L("june"), L("july"), L("may")>>)
DayRx == Alt(<<Cat(<<L("3"), In({"0", "1"})>>), Cat(<<In({"1", "2"}), In(Digit)>>),
               Cat(<<L("0"), In(Digit \ {"0"})>>), In(Digit \ {"0"}),
               Cat(<<L(" "), In(Digit \ {"0"})>>)>>)
MonthNumberRx == Alt(<<Cat(<<L("1"), In({"0", "1", "2"})>>), Cat(<<L("0"), In(Digit \ {"0"})>>),
                       In(Digit \ {"0"})>>)
YearRx == Times(In(Digit), 4, 4)

\* the directive r, captured when it is the one asked for
Directive(name, r, asked) == IF name = asked THEN Grp(r) ELSE r

\* the formats _extract_balance_date tries, in its order, as the regular
\* expressions strptime compiles them to (a blank of the format is \s+), with
\* the directive asked for as the group
DateFormats(asked) == <<
    Cat(<<Directive("m", MonthNameRx, asked), Plus(In(Space)), Directive("d", DayRx, asked),
          L(","), Plus(In(Space)), Directive("Y", YearRx, asked)>>),
    Cat(<<Directive("m", MonthNameRx, asked), Plus(In(Space)), Directive("d", DayRx, asked),
          Plus(In(Space)), Directive("Y", YearRx, asked)>>),
    Cat(<<Directive("m", MonthNumberRx, asked), L("/"), Directive("d", DayRx, asked),
          L("/"), Directive("Y", YearRx, asked)>>),
    Cat(<<Directive("Y", YearRx, asked), L("-"), Directive("m", MonthNumberRx, asked),
          L("-"), Directive("d", DayRx, asked)>>) >>

\* what the directive captures when the format matches the whole string:
\* strptime takes the first match at the start and rejects unconverted data
Captured(r, str) ==
    LET ms == Match(r, str, 1, NoGroup)
    IN  IF ms = <<>> \/ ms[1].e # Len(str) + 1 THEN Null
        ELSE Some(SubSeq(str, ms[1].g[1], ms[1].g[2] - 1))

IsLeap(year) == year % 4 = 0 /\ (year % 100 # 0 \/ year % 400 = 0)

DaysIn(month, year) ==
    IF month = 2 THEN (IF IsLeap(year) THEN 29 ELSE 28)
    ELSE IF month \in {4, 6, 9, 11} THEN 30 ELSE 31

\* the month a captured %B or %m stands for
MonthOf(m) ==
    IF Chars(m) \subseteq Digit THEN ParseInt(m) ELSE CHOOSE n \in 1..12 : MonthNames[n] = m

\* the date of the captured directives, or Null for the ValueError of a
\* string the format does not match or of a day the calendar lacks
DateOf(Y, m, d) ==
    IF Y = Null \/ m = Null \/ d = Null THEN Null
    ELSE IF ParseInt(Val(Y)) < 1 THEN Null
    ELSE IF ParseInt(Strip(Val(d))) > DaysIn(MonthOf(Val(m)), ParseInt(Val(Y))) THEN Null
    ELSE Some([year |-> ParseInt(Val(Y)), month |-> MonthOf(Val(m)),
               day |-> ParseInt(Strip(Val(d)))])

\* the string as each of the formats reads it, with the directive captured
CapturedBy(asked, str) ==
    [k \in 1..Len(DateFormats(asked)) |-> Captured(DateFormats(asked)[k], str)]

\* the dates the formats give, in the order of the formats
DatesOf(Y, m, d) == [k \in DOMAIN Y |-> DateOf(Y[k], m[k], d[k])]

\* datetime.strptime(date_str, fmt) for fmt in the formats: the date of the
\* first format that parses the string, or Null
Strptime(date_str) ==
    FirstSome(DatesOf(CapturedBy("Y", Lower(date_str)), CapturedBy("m", Lower(date_str)),
                      CapturedBy("d", Lower(date_str))))

\* the date a match of a balance date pattern gives
DateOfMatch(m) == IF m.found THEN Strptime(m.group1) ELSE Null

\* BalanceSheetExtractor._extract_balance_date: the date of the first pattern
\* whose match is a date in one of the formats
ExtractBalanceDate(lt) ==
    FirstSome([k \in 1..Len(balance_date_patterns) |->
                  DateOfMatch(Search(balance_date_patterns[k], lt))])

\* the year of a match of 20dd when it is in range, the clock's otherwise
YearOrClock(year_match, clock) ==
    IF year_match.found /\ InYearRange(ParseInt(year_match.group1))
    THEN Some(ParseInt(year_match.group1)) ELSE Some(clock)

\* BalanceSheetExtractor._infer_year: the first 20dd of the text when it is in
\* range, the year of the clock otherwise
InferYear(t, clock) ==
    YearOrClock(Search(Grp(Cat(<<L("20"), Times(In(Digit), 2, 2)>>)), t), clock)

\* ------------------------------------------------------------------------
\* BalanceSheetExtractor: the assets
\* ------------------------------------------------------------------------

\* total_patterns of _extract_assets_section
assets_total_patterns == <<
    Cat(<<L("total"), Star(In(Space)), L("assets"), Star(In(Space \cup {":"})), Opt(L("$")), Grp(Cat(<<Plus(In(Digit \cup {","})), Opt(L(".")), Star(In(Digit))>>))>>),
    Cat(<<L("total"), Star(In(Space)), L("assets"), Star(In(Space)), Opt(L("$")), Star(In(Space)), Grp(Cat(<<Plus(In(Digit \cup {","})), Opt(L(".")), Star(In(Digit))>>))>>) >>

\* asset_patterns of _extract_assets_section: the label patterns of each line item
asset_patterns == <<
    [field |-> "cash", patterns |-> <<L("cash"), L("checking"), L("savings"), Cat(<<L("bank"), Star(In(Space)), L("accounts")>>)>>],
    [field |-> "accounts_receivable", patterns |-> <<Cat(<<L("account"), Opt(L("s")), Star(In(Space)), L("receivable")>>), Cat(<<L("trade"), Star(In(Space)), L("receivable")>>), L("a/r")>>],
    [field |-> "inventory", patterns |-> <<Cat(<<L("inventor"), Alt(<<L("y"), L("ies")>>)>>)>>],
    [field |-> "prepaid", patterns |-> <<L("prepaid")>>],
    [field |-> "fixed_assets_gross", patterns |-> <<Cat(<<L("fixed"), Star(In(Space)), L("assets")>>), Cat(<<L("property"), Star(Dot), L("equipment")>>), L("furniture"), L("vehicles"), L("equipment"), L("automobiles")>>],
    [field |-> "accumulated_depreciation", patterns |-> <<Cat(<<L("accumulated"), Star(In(Space)), L("depreciation")>>), Cat(<<L("accum"), Star(Dot), L("depr")>>), Cat(<<L("less"), Star(Dot), L("depreciation")>>)>>],
    [field |-> "other_assets", patterns |-> <<Cat(<<L("other"), Star(In(Space)), L("assets")>>), Cat(<<L("other"), Star(In(Space)), L("current"), Star(In(Space)), L("assets")>>)>>],
    [field |-> "loans_to_shareholders", patterns |-> <<Cat(<<Alt(<<L("loan"), L("due")>>), Star(In(Space)), Alt(<<L("to"), L("from")>>), Star(In(Space)), Alt(<<L("shareholder"), L("owner"), L("member")>>)>>), Cat(<<L("shareholder"), Star(In(Space)), L("loan")>>)>>] >>

\* x or 0, for the optional float _parse_amount returns
OrZero(x) == IF x = Null \/ ~Truthy(Val(x)) THEN Zero ELSE Val(x)

\* assets.get(key): Null for None
Lookup(map, key) == IF key \in DOMAIN map THEN Some(map[key]) ELSE Null

\* map.get(key, 0)
GetOrZero(map, key) == IF key \in DOMAIN map THEN map[key] ELSE Zero

\* the amount a match of a total pattern gives: a capture that is no amount
\* counts as 0
TotalOfMatch(m) == IF m.found THEN Some(OrZero(ParseAmount(m.group1))) ELSE Null

\* the total of a section: the first pattern that matches decides
SectionTotal(total_patterns, lt) ==
    FirstSome([k \in 1..Len(total_patterns) |-> TotalOfMatch(Search(total_patterns[k], lt))])

\* the map of the fields that have a value: field[k] has value[k]
MapOf(field, value) ==
    [f \in {field[k] : k \in {j \in DOMAIN value : value[j] # Null}} |->
        Val(value[CHOOSE k \in DOMAIN value : value[k] # Null /\ field[k] = f])]

\* the value extract_from_table gives for the first pattern of a line item
\* that has one
LineItem(patterns, rows) ==
    FirstSome([k \in 1..Len(patterns) |-> ExtractFromRows(patterns[k], rows)])

\* the line items of a section that the tables have
LineItems(item_patterns, tbls) ==
    MapOf([k \in 1..Len(item_patterns) |-> item_patterns[k].field],
          [k \in 1..Len(item_patterns) |-> LineItem(item_patterns[k].patterns, RowsFrom(tbls, 1))])

\* net_fixed_assets and fixed_assets: the net is computed when both the gross
\* amount and the depreciation are there and not zero
NetFixedAssets(gross, depreciation) ==
    IF gross # Null /\ Truthy(Val(gross)) /\ depreciation # Null /\ Truthy(Val(depreciation))
    THEN [f \in {"net_fixed_assets", "fixed_assets"} |-> FloatAdd(Val(gross), Val(depreciation))]
    ELSE IF gross # Null /\ Truthy(Val(gross))
    THEN [f \in {"fixed_assets"} |-> Val(gross)]
    ELSE NoAmounts

\* the union of two maps with disjoint keys
Merged(m1, m2) ==
    [f \in DOMAIN m1 \cup DOMAIN m2 |-> IF f \in DOMAIN m2 THEN m2[f] ELSE m1[f]]

\* the line items with a positive accumulated depreciation made negative
DepreciationNegated(found) ==
    [f \in DOMAIN found |->
        IF f = "accumulated_depreciation" /\ Positive(found[f])
        THEN FloatNeg(found[f]) ELSE found[f]]

\* the assets of a total and line items
AssetsOf(total, items) ==
    Merged(Merged(IF total = Null THEN NoAmounts ELSE [f \in {"total"} |-> Val(total)], items),
           NetFixedAssets(Lookup(items, "fixed_assets_gross"),
                          Lookup(items, "accumulated_depreciation")))

\* BalanceSheetExtractor._extract_assets_section: the map it returns
ExtractAssetsSection(lt, tbls) ==
    AssetsOf(SectionTotal(assets_total_patterns, lt),
             DepreciationNegated(LineItems(asset_patterns, tbls)))

\* the red flags _extract_assets_section adds
AssetsRedFlags(section) ==
    IF Positive(GetOrZero(section, "loans_to_shareholders"))
    THEN <<<<"Loans to shareholders", section["loans_to_shareholders"]>>>> ELSE <<>>

\* ------------------------------------------------------------------------
\* extract_amounts: the text strategy
\* ------------------------------------------------------------------------

\* patterns of extract_amounts_from_text, per field, in the order they are tried
AMOUNT_PATTERNS == <<
    [field |-> "gross_receipts", patterns |-> <<
        Cat(<<L("gross"), Star(In(Space)), L("receipts"), LazyStar(Dot), Opt(L("$")), Star(In(Space)), Grp(Plus(In(Digit \cup {","})))>>),
        Cat(<<L("total"), Star(In(Space)), Alt(<<L("sales"), L("revenue")>>), LazyStar(Dot), Opt(L("$")), Star(In(Space)), Grp(Plus(In(Digit \cup {","})))>>),
        Cat(<<L("line"), Star(In(Space)), L("1"), Opt(In({"a", "b", "c"})), Star(NotIn(Digit)), Opt(L("$")), Star(In(Space)), Grp(Plus(In(Digit \cup {","})))>>) >>],
    [field |-> "cogs", patterns |-> <<
        Cat(<<L("cost"), Star(In(Space)), L("of"), Star(In(Space)), L("goods"), Star(In(Space)), L("sold"), LazyStar(Dot), Opt(L("$")), Star(In(Space)), Grp(Plus(In(Digit \cup {","})))>>),
        Cat(<<L("line"), Star(In(Space)), L("2"), Star(NotIn(Digit)), Opt(L("$")), Star(In(Space)), Grp(Plus(In(Digit \cup {","})))>>) >>],
    [field |-> "gross_profit", patterns |-> <<
        Cat(<<L("gross"), Star(In(Space)), L("profit"), LazyStar(Dot), Opt(L("$")), Star(In(Space)), Grp(Plus(In(Digit \cup {","})))>>),
        Cat(<<L("line"), Star(In(Space)), L("3"), Star(NotIn(Digit)), Opt(L("$")), Star(In(Space)), Grp(Plus(In(Digit \cup {","})))>>) >>],
    [field |-> "officer_compensation", patterns |-> <<
        Cat(<<L("compensation"), Star(In(Space)), L("of"), Star(In(Space)), L("officers"), LazyStar(Dot), Opt(L("$")), Star(In(Space)), Grp(Plus(In(Digit \cup {","})))>>),
        Cat(<<L("officer"), LazyStar(Dot), L("compensation"), LazyStar(Dot), Opt(L("$")), Star(In(Space)), Grp(Plus(In(Digit \cup {","})))>>),
        Cat(<<L("line"), Star(In(Space)), L("7"), Star(NotIn(Digit)), Opt(L("$")), Star(In(Space)), Grp(Plus(In(Digit \cup {","})))>>) >>],
    [field |-> "salaries_wages", patterns |-> <<
        Cat(<<L("salaries"), Star(In(Space)), Opt(Cat(<<L("and"), Star(In(Space))>>)), L("wages"), LazyStar(Dot), Opt(L("$")), Star(In(Space)), Grp(Plus(In(Digit \cup {","})))>>),
        Cat(<<L("line"), Star(In(Space)), L("8"), Star(NotIn(Digit)), Opt(L("$")), Star(In(Space)), Grp(Plus(In(Digit \cup {","})))>>) >>],
    [field |-> "rents", patterns |-> <<
        Cat(<<L("rent"), Opt(L("s")), Star(NotIn(LowerAZ)), Opt(L("$")), Star(In(Space)), Grp(Plus(In(Digit \cup {","})))>>) >>],
    [field |-> "interest_expense", patterns |-> <<
        Cat(<<L("interest"), Star(In(Space)), Opt(L("expense")), Star(NotIn(LowerAZ)), Opt(L("$")), Star(In(Space)), Grp(Plus(In(Digit \cup {","})))>>) >>],
    [field |-> "depreciation", patterns |-> <<
        Cat(<<L("depreciation"), Star(NotIn(LowerAZ)), Opt(L("$")), Star(In(Space)), Grp(Plus(In(Digit \cup {","})))>>),
        Cat(<<L("line"), Star(In(Space)), L("14"), Star(NotIn(Digit)), Opt(L("$")), Star(In(Space)), Grp(Plus(In(Digit \cup {","})))>>) >>],
    [field |-> "total_deductions", patterns |-> <<
        Cat(<<L("total"), Star(In(Space)), L("deductions"), LazyStar(Dot), Opt(L("$")), Star(In(Space)), Grp(Plus(In(Digit \cup {","})))>>),
        Cat(<<L("line"), Star(In(Space)), L("20"), Star(NotIn(Digit)), Opt(L("$")), Star(In(Space)), Grp(Plus(In(Digit \cup {","})))>>) >>],
    [field |-> "net_income", patterns |-> <<
        Cat(<<Alt(<<L("ordinary"), L("net"), L("taxable")>>), Star(In(Space)), Opt(Cat(<<L("business"), Star(In(Space))>>)), L("income"), LazyStar(Dot), Opt(L("$")), Star(In(Space)), Grp(Plus(In(Digit \cup {","})))>>),
        Cat(<<L("line"), Star(In(Space)), Alt(<<L("21"), L("22"), L("30"), L("31")>>), Star(NotIn(Digit)), Opt(L("$")), Star(In(Space)), Grp(Plus(In(Digit \cup {","})))>>) >>],
    [field |-> "total_assets", patterns |-> <<
        Cat(<<L("total"), Star(In(Space)), L("assets"), LazyStar(Dot), Opt(L("$")), Star(In(Space)), Grp(Plus(In(Digit \cup {","})))>>) >>],
    [field |-> "total_liabilities", patterns |-> <<
        Cat(<<L("total"), Star(In(Space)), L("liabilities"), LazyStar(Dot), Opt(L("$")), Star(In(Space)), Grp(Plus(In(Digit \cup {","})))>>) >>],
    [field |-> "cash", patterns |-> <<
        Cat(<<Alt(<<Bol(FALSE), NotIn(LowerAZ)>>), L("cash"), Star(NotIn(LowerAZ)), Opt(L("$")), Star(In(Space)), Grp(Plus(In(Digit \cup {","})))>>) >>],
    [field |-> "accounts_receivable", patterns |-> <<
        Cat(<<Alt(<<L("accounts"), L("trade")>>), Star(In(Space)), L("receivable"), LazyStar(Dot), Opt(L("$")), Star(In(Space)), Grp(Plus(In(Digit \cup {","})))>>) >>],
    [field |-> "inventory", patterns |-> <<
        Cat(<<L("inventor"), Alt(<<L("y"), L("ies")>>), LazyStar(Dot), Opt(L("$")), Star(In(Space)), Grp(Plus(In(Digit \cup {","})))>>) >>],
    [field |-> "retained_earnings", patterns |-> <<
        Cat(<<L("retained"), Star(In(Space)), L("earnings"), LazyStar(Dot), Opt(L("$")), Star(In(Space)), Grp(Plus(In(Digit \cup {","})))>>) >>],
    [field |-> "section_179", patterns |-> <<
        Cat(<<L("section"), Star(In(Space)), L("179"), LazyStar(Dot), Opt(L("$")), Star(In(Space)), Grp(Plus(In(Digit \cup {","})))>>),
        Cat(<<L("179"), Star(In(Space)), Alt(<<L("deduction"), L("expense")>>), LazyStar(Dot), Opt(L("$")), Star(In(Space)), Grp(Plus(In(Digit \cup {","})))>>),
        Cat(<<L("line"), Star(In(Space)), L("1"), Alt(<<L("1"), Cat(<<L("2"), Opt(L("a"))>>)>>), LazyStar(Dot), L("179"), LazyStar(Dot), Opt(L("$")), Star(In(Space)), Grp(Plus(In(Digit \cup {","})))>>) >>],
    [field |-> "capital_gains_short", patterns |-> <<
        Cat(<<L("short"), Star(In(Space \cup {"-"})), L("term"), Star(In(Space)), L("capital"), Star(In(Space)), L("gain"), LazyStar(Dot), Opt(L("$")), Star(In(Space)), Grp(Plus(In(Digit \cup {","})))>>),
        Cat(<<L("line"), Star(In(Space)), L("7"), NotIn(Digit), LazyStar(Dot), L("capital"), LazyStar(Dot), Opt(L("$")), Star(In(Space)), Grp(Plus(In(Digit \cup {","})))>>) >>],
    [field |-> "capital_gains_long", patterns |-> <<
        Cat(<<L("long"), Star(In(Space \cup {"-"})), L("term"), Star(In(Space)), L("capital"), Star(In(Space)), L("gain"), LazyStar(Dot), Opt(L("$")), Star(In(Space)), Grp(Plus(In(Digit \cup {","})))>>),
        Cat(<<L("line"), Star(In(Space)), L("8"), Opt(L("a")), NotIn(Digit), LazyStar(Dot), L("capital"), LazyStar(Dot), Opt(L("$")), Star(In(Space)), Grp(Plus(In(Digit \cup {","})))>>) >>],
    [field |-> "distributions", patterns |-> <<
        Cat(<<L("distribution"), Opt(L("s")), LazyStar(Dot), Opt(L("$")), Star(In(Space)), Grp(Plus(In(Digit \cup {","})))>>),
        Cat(<<L("line"), Star(In(Space)), L("16"), Opt(L("a")), NotIn(Digit), LazyStar(Dot), L("cash"), LazyStar(Dot), Opt(L("$")), Star(In(Space)), Grp(Plus(In(Digit \cup {","})))>>) >>],
    [field |-> "distributions_property", patterns |-> <<
        Cat(<<L("line"), Star(In(Space)), L("16b"), NotIn(Digit), LazyStar(Dot), L("property"), LazyStar(Dot), Opt(L("$")), Star(In(Space)), Grp(Plus(In(Digit \cup {","})))>>),
        Cat(<<L("property"), Star(In(Space)), L("distribution"), Opt(L("s")), LazyStar(Dot), Opt(L("$")), Star(In(Space)), Grp(Plus(In(Digit \cup {","})))>>) >>],
    [field |-> "guaranteed_payments", patterns |-> <<
        Cat(<<L("guaranteed"), Star(In(Space)), L("payments"), LazyStar(Dot), Opt(L("$")), Star(In(Space)), Grp(Plus(In(Digit \cup {","})))>>) >>],
    [field |-> "loans_to_shareholders", patterns |-> <<
        Cat(<<L("loan"), Opt(L("s")), Star(In(Space)), L("to"), Star(In(Space)), Alt(<<Cat(<<L("shareholder"), Opt(L("s"))>>), Cat(<<L("member"), Opt(L("s"))>>)>>), LazyStar(Dot), Opt(L("$")), Star(In(Space)), Grp(Plus(In(Digit \cup {","})))>>) >>],
    [field |-> "boy_total_assets", patterns |-> <<
        Cat(<<L("b"), Alt(<<L("eginning"), L("oy")>>), Star(In(Space)), LazyStar(Dot), L("total"), Star(In(Space)), L("assets"), LazyStar(Dot), Opt(L("$")), Star(In(Space)), Grp(Plus(In(Digit \cup {","})))>>) >>],
    [field |-> "boy_total_liabilities", patterns |-> <<
        Cat(<<L("b"), Alt(<<L("eginning"), L("oy")>>), Star(In(Space)), LazyStar(Dot), L("total"), Star(In(Space)), L("liabilities"), LazyStar(Dot), Opt(L("$")), Star(In(Space)), Grp(Plus(In(Digit \cup {","})))>>) >>],
    [field |-> "eoy_total_assets", patterns |-> <<
        Cat(<<L("e"), Alt(<<L("nd"), L("oy")>>), Star(In(Space)), LazyStar(Dot), L("total"), Star(In(Space)), L("assets"), LazyStar(Dot), Opt(L("$")), Star(In(Space)), Grp(Plus(In(Digit \cup {","})))>>) >>],
    [field |-> "eoy_total_liabilities", patterns |-> <<
        Cat(<<L("e"), Alt(<<L("nd"), L("oy")>>), Star(In(Space)), LazyStar(Dot), L("total"), Star(In(Space)), L("liabilities"), LazyStar(Dot), Opt(L("$")), Star(In(Space)), Grp(Plus(In(Digit \cup {","})))>>) >>],
    [field |-> "ppp_forgiveness", patterns |-> <<
        Cat(<<L("ppp"), LazyStar(Dot), L("forgiveness"), LazyStar(Dot), Opt(L("$")), Star(In(Space)), Grp(Plus(In(Digit \cup {","})))>>),
        Cat(<<L("paycheck"), Star(In(Space)), L("protection"), LazyStar(Dot), L("forgiveness"), LazyStar(Dot), Opt(L("$")), Star(In(Space)), Grp(Plus(In(Digit \cup {","})))>>) >>],
    [field |-> "eidl_advance", patterns |-> <<
        Cat(<<L("eidl"), LazyStar(Dot), Alt(<<L("advance"), L("grant")>>), LazyStar(Dot), Opt(L("$")), Star(In(Space)), Grp(Plus(In(Digit \cup {","})))>>),
        Cat(<<L("economic"), Star(In(Space)), L("injury"), LazyStar(Dot), Alt(<<L("advance"), L("grant")>>), LazyStar(Dot), Opt(L("$")), Star(In(Space)), Grp(Plus(In(Digit \cup {","})))>>) >>],
    [field |-> "erc_credit", patterns |-> <<
        Cat(<<L("employee"), Star(In(Space)), L("retention"), Star(In(Space)), L("credit"), LazyStar(Dot), Opt(L("$")), Star(In(Space)), Grp(Plus(In(Digit \cup {","})))>>),
        Cat(<<L("erc"), LazyStar(Dot), Opt(L("$")), Star(In(Space)), Grp(Plus(In(Digit \cup {","})))>>) >>] >>

\* amounts[field] = value
Put(amts, field, value) ==
    [f \in DOMAIN amts \cup {field} |-> IF f = field THEN value ELSE amts[f]]

\* int(float(value_str)) of the digits and commas a pattern captured: the
\* value, or Null for the ValueError float('') raises.  The digit strings of
\* the model are short, so that float() is exact on them.
TextValue(captured) ==
    LET value_str == Strip(ReplaceChars(captured, {",", "$"}, <<>>))
    IN  IF value_str = "" THEN Null ELSE Some(ParseInt(value_str))

\* 2^1024 - 2^970, the least integer whose float() is infinite
FloatLimit ==
    "1797693134862315807937289714053034150799341327100378269361737789804449682927647509466490179775872070963"
    \o "3028641669288791094655554785194040263065748867150582068190890200070838367627385484581771153176447573027"
    \o "0069855571366959622842914819860834936475292719074168444365510704342711559699508093042880177904174497792"

\* a string of digits without its leading zeros
Significant(digits) ==
    LET nonzero == {k \in 1..Len(digits) : SubSeq(digits, k, k) # "0"}
    IN  IF nonzero = {} THEN "" ELSE SubSeq(digits, Least(nonzero), Len(digits))

\* a >= b for two strings of digits of the same length
DigitsAtLeast(a, b) ==
    LET differing == {k \in 1..Len(a) : SubSeq(a, k, k) # SubSeq(b, k, k)}
    IN  \/ differing = {}
        \/ DigitValue[SubSeq(a, Least(differing), Least(differing))]
               > DigitValue[SubSeq(b, Least(differing), Least(differing))]

\* float() of a string of digits is inf
IsInfinite(digits) ==
    \/ Len(Significant(digits)) > Len(FloatLimit)
    \/ /\ Len(Significant(digits)) = Len(FloatLimit)
       /\ DigitsAtLeast(Significant(digits), FloatLimit)

\* int(float(value_str)) raises OverflowError, which the except clause of
\* the loop does not name
TextOverflows(captured) ==
    IsInfinite(Strip(ReplaceChars(captured, {",", "$"}, <<>>)))

\* the amount a match of a field pattern gives when it is positive: a
\* pattern that captures no number or a zero is passed over
PositiveOfMatch(m) ==
    IF /\ m.found
       /\ ~TextOverflows(m.group1)
       /\ TextValue(m.group1) # Null
       /\ Val(TextValue(m.group1)) > 0
    THEN TextValue(m.group1) ELSE Null

\* the loop over the patterns of a field reaches a match whose number
\* overflows before a pattern gives a positive amount
FieldRaises(field_patterns, lt) ==
    \E k \in 1..Len(field_patterns) :
        /\ Search(field_patterns[k], lt).found
        /\ TextOverflows(Search(field_patterns[k], lt).group1)
        /\ \A j \in 1..(k - 1) : PositiveOfMatch(Search(field_patterns[j], lt)) = Null

\* extract_amounts_from_text ends in OverflowError
TextRaises(t) ==
    \E k \in 1..Len(AMOUNT_PATTERNS) : FieldRaises(AMOUNT_PATTERNS[k].patterns, Lower(t))

\* the value of the first pattern of a field that matches and captures a
\* positive amount
FieldValue(field_patterns, lt) ==
    FirstSome([k \in 1..Len(field_patterns) |-> PositiveOfMatch(Search(field_patterns[k], lt))])

\* extract_amounts_from_text
ExtractAmountsFromText(t) ==
    MapOf([k \in 1..Len(AMOUNT_PATTERNS) |-> AMOUNT_PATTERNS[k].field],
          [k \in 1..Len(AMOUNT_PATTERNS) |-> FieldValue(AMOUNT_PATTERNS[k].patterns, Lower(t))])

\* ------------------------------------------------------------------------
\* extract_amounts: the table strategy
\* ------------------------------------------------------------------------

\* field_mappings of extract_amounts_from_table: label fragment, field, in dict order
field_mappings == <<
    <<"gross receipts", "gross_receipts">>,
    <<"total sales", "gross_receipts">>,
    <<"total revenue", "gross_receipts">>,
    <<"cost of goods", "cogs">>,
    <<"gross profit", "gross_profit">>,
    <<"officer comp", "officer_compensation">>,
    <<"compensation of officer", "officer_compensation">>,
    <<"salaries", "salaries_wages">>,
    <<"wages", "salaries_wages">>,
    <<"rent", "rents">>,
    <<"interest", "interest_expense">>,
    <<"depreciation", "depreciation">>,
    <<"total deduction", "total_deductions">>,
    <<"net income", "net_income">>,
    <<"ordinary income", "net_income">>,
    <<"taxable income", "taxable_income">>,
    <<"total assets", "total_assets">>,
    <<"total liabilities", "total_liabilities">>,
    <<"cash", "cash">>,
    <<"receivable", "accounts_receivable">>,
    <<"inventory", "inventory">>,
    <<"retained earnings", "retained_earnings">>,
    <<"section 179", "section_179">>,
    <<"distribution", "distributions">>,
    <<"guaranteed payment", "guaranteed_payments">> >>

\* A table is a record with its rows; a row is a sequence of cells; a cell is
\* a string, the empty string standing for None as well, which the code tells
\* from '' nowhere (both fail `if cell`).

\* int(x) of an optional float: the integer part, truncated towards zero;
\* ValueError for a nan and for no float at all, OverflowError for an infinity
IntOf(x) ==
    IF x = Null \/ Val(x).kind = "nan" THEN [kind |-> "ValueError", value |-> 0]
    ELSE IF Val(x).kind = "inf" THEN [kind |-> "OverflowError", value |-> 0]
    ELSE [kind |-> "int",
          value |-> IF Val(x).value < 0 THEN 0 - (Abs(Val(x).value) \div AmountScale)
                    ELSE Val(x).value \div AmountScale]

\* int(float(cell_str))
ParseNumber(cell_str) == IntOf(ParseFloat(cell_str))

\* the label of a row: its first non-blank cell, lowered and stripped
RowLabel(row) ==
    LET inked == {k \in 1..Len(row) : row[k] # "" /\ Strip(row[k]) # ""}
    IN  IF inked = {} THEN "" ELSE Strip(Lower(row[Least(inked)]))

\* mutant: the last mapping whose fragment the label contains
MatchedFieldLast(label) ==
    LET fits == {k \in 1..Len(field_mappings) : Contains(label, field_mappings[k][1])}
    IN  IF fits = {} THEN None ELSE field_mappings[Greatest(fits)][2]

\* the field of the first mapping whose fragment the label contains
MatchedField(label) ==
    LET fits == {k \in 1..Len(field_mappings) : Contains(label, field_mappings[k][1])}
    IN  IF fits = {} THEN None ELSE field_mappings[Least(fits)][2]

\* what a cell of a matched row does to the scan: Null when it is passed over
\* (empty, no number, or zero), else the number taken or the OverflowError
CellOutcome(cell, n) ==
    IF cell = "" \/ n.kind = "ValueError" \/ (n.kind = "int" /\ n.value = 0) THEN Null
    ELSE Some([kind |-> n.kind, value |-> Abs(n.value)])

\* for cell in reversed(row): the first non-zero number is taken, and an
\* infinite cell met before one ends the call
RowValue(row) ==
    FirstSome([k \in 1..Len(row) |->
                  CellOutcome(row[Len(row) + 1 - k],
                              ParseNumber(ReplaceChars(row[Len(row) + 1 - k], {",", "$", ")"},
                                                       [c \in {"("} |-> "-"])))])

\* mutant: a field the map of the table holds already keeps its value
FieldRowKeepsFirst(result, matched_field, v) ==
    IF matched_field = None \/ v = Null THEN result
    ELSE IF Val(v).kind = "OverflowError" THEN [raised |-> TRUE, amounts |-> result.amounts]
    ELSE IF matched_field \in DOMAIN result.amounts THEN result
    ELSE [raised |-> FALSE, amounts |-> Put(result.amounts, matched_field, Val(v).value)]

\* one iteration of `for row in rows` on the result so far, for a row of a
\* mapped field
FieldRow(result, matched_field, v) ==
    IF matched_field = None \/ v = Null THEN result
    ELSE IF Val(v).kind = "OverflowError" THEN [raised |-> TRUE, amounts |-> result.amounts]
    ELSE [raised |-> FALSE, amounts |-> Put(result.amounts, matched_field, Val(v).value)]

\* one iteration of `for row in rows` on the result so far
TableRow(result, row) ==
    IF result.raised \/ Len(row) < 2 THEN result
    ELSE FieldRow(result, MatchedField(RowLabel(row)), RowValue(row))

RECURSIVE TableRowsFrom(_, _, _)
TableRowsFrom(result, rows, k) ==
    IF k > Len(rows) THEN result
    ELSE TableRowsFrom(TableRow(result, rows[k]), rows, k + 1)

\* extract_amounts_from_table: the map it returns, or raised when it ends in
\* the OverflowError of int(float('inf')), which nothing in the call catches
ExtractAmountsFromTable(table_data) ==
    TableRowsFrom([raised |-> FALSE, amounts |-> NoAmounts], table_data.rows, 1)

\* amounts.get(key, 0)
Get(amts, key) == IF key \in DOMAIN amts THEN amts[key] ELSE 0

\* mutant: a table value replaces whatever the map holds
MergeTableOverwriting(amts, tamts) ==
    LET taken == {key \in DOMAIN tamts : tamts[key] > 0}
    IN  [key \in DOMAIN amts \cup taken |-> IF key \in taken THEN tamts[key] ELSE amts[key]]

\* mutant: amounts.get(key) without the default, so that only a key the map
\* holds at zero is filled
MergeTableKnownKeys(amts, tamts) ==
    LET taken == {key \in DOMAIN tamts : tamts[key] > 0 /\ key \in DOMAIN amts /\ amts[key] = 0}
    IN  [key \in DOMAIN amts \cup taken |-> IF key \in taken THEN tamts[key] ELSE amts[key]]

\* the merge of one table's map into the merged map: a positive table value
\* fills a field the map lacks or holds at zero
MergeTable(amts, tamts) ==
    LET taken == {key \in DOMAIN tamts : tamts[key] > 0 /\ Get(amts, key) = 0}
    IN  [key \in DOMAIN amts \cup taken |-> IF key \in taken THEN tamts[key] ELSE amts[key]]

\* ------------------------------------------------------------------------
\* parse_financial_data: the year, the company and the record
\* ------------------------------------------------------------------------

\* re.search(r, s, re.IGNORECASE) for a pattern r written in lower case: the
\* match is looked for in the lower-cased string, the group is cut from s
SearchLowered(r, s, lowered) == FirstMatch(r, s, lowered)

SearchIgnoreCase(r, s) == SearchLowered(r, s, Lower(s))

\* match.group(1) if match else None
GroupOrNone(m) == IF m.found THEN m.group1 ELSE None

\* match.group(1).strip() if match else None
StrippedOrNone(m) == IF m.found THEN Strip(m.group1) ELSE None

\* name = match.group(1).strip(), kept if len(name) > 2 and len(name) < 100
NameOfMatch(m) ==
    IF m.found /\ Len(Strip(m.group1)) > 2 /\ Len(Strip(m.group1)) < 100
    THEN Some(Strip(m.group1)) ELSE Null

\* the name of the first of the patterns that gives one
NameFrom(patterns, t) ==
    FirstSome([k \in 1..Len(patterns) |-> NameOfMatch(SearchIgnoreCase(patterns[k], t))])

\* business_name or "Unknown Business"
NameOrUnknown(name) == IF name = Null THEN "Unknown Business" ELSE Val(name)

DOC_TYPE_DISPLAY == [d \in DocTypes \cup {"other"} |->
    CASE d = "form_1120s" -> "Form 1120-S"
      [] d = "form_1120" -> "Form 1120"
      [] d = "form_1065" -> "Form 1065"
      [] d = "schedule_c" -> "Schedule C"
      [] d = "va_form_500" -> "Virginia Form 500"
      [] d = "balance_sheet" -> "Balance Sheet"
      [] d = "income_statement" -> "Income Statement"
      [] d = "other" -> "Other"]

ENTITY_TYPE_DISPLAY ==
    [e \in {"S-Corporation", "C-Corporation", "Partnership", "Sole Proprietorship",
            "Corporation", None, "Other"} |->
        IF e = None THEN "Other" ELSE e]

\* mapping.get(key, "Other")
Display(mapping, key) == IF key \in DOMAIN mapping THEN mapping[key] ELSE "Other"

\* patterns of extract_tax_year
tax_year_patterns == <<
    Cat(<<L("tax"), Star(In(Space)), L("year"), Star(In(Space)), Opt(Alt(<<L("beginning"), L("ending")>>)), Star(In(Space)), Grp(Times(In(Digit), 4, 4))>>),
    Cat(<<L("for"), Star(In(Space)), Opt(Cat(<<L("calendar"), Star(In(Space))>>)), L("year"), Star(In(Space)), Grp(Times(In(Digit), 4, 4))>>),
    Cat(<<Grp(Times(In(Digit), 4, 4)), Star(In(Space)), Alt(<<L("form"), L("return")>>)>>),
    Cat(<<L("december"), Star(In(Space)), L("31"), Opt(L(",")), Star(In(Space)), Grp(Times(In(Digit), 4, 4))>>),
    Cat(<<Grp(Times(In(Digit), 4, 4)), Star(In(Space)), L("u"), Opt(L(".")), L("s"), Opt(L(".")), Star(In(Space)), Opt(Cat(<<L("income"), Star(In(Space))>>)), L("tax")>>) >>

\* year = int(match.group(1)), kept if 2015 <= year <= 2030
YearOfMatch(m) ==
    IF m.found /\ InYearRange(ParseInt(m.group1)) THEN Some(ParseInt(m.group1)) ELSE Null

\* the year of the first of the patterns that gives one in range
YearFrom(patterns, lt) ==
    FirstSome([k \in 1..Len(patterns) |-> YearOfMatch(Search(patterns[k], lt))])

\* return datetime.now().year - 1, when no pattern gave a year
YearOrLastYear(year, clock) == IF year = Null THEN clock - 1 ELSE Val(year)

\* extract_tax_year(text), called in the calendar year clock
ExtractTaxYear(t, clock) == YearOrLastYear(YearFrom(tax_year_patterns, Lower(t)), clock)

\* classification.tax_year or extract_tax_year(text)
YearOr(year, other) == IF year # Null /\ Val(year) # 0 THEN Val(year) ELSE other

\* name_patterns of extract_company_info (matched with re.IGNORECASE)
name_patterns == <<
    Cat(<<L("name"), Star(In(Space)), L("of"), Star(In(Space)), Alt(<<L("corporation"), L("partnership"), L("business"), L("company")>>), Plus(In(Space \cup {":"})), Grp(Plus(NotIn({"\n"})))>>),
    Cat(<<L("business"), Star(In(Space)), L("name"), Plus(In(Space \cup {":"})), Grp(Plus(NotIn({"\n"})))>>),
    Cat(<<L("e"), Alt(<<L("mployer"), L("in")>>), LazyStar(Dot), Grp(Cat(<<In(LowerAZ), Plus(In(LowerAZ \cup Space \cup {"&", ",", "."})), Alt(<<L("inc"), L("llc"), L("corp"), L("co"), L("lp"), L("llp")>>)>>))>>) >>

\* the pattern of the EIN, of the NAICS code and of the business activity
ein_pattern ==
    Cat(<<L("e"), Alt(<<L("in"), Cat(<<L("mployer"), Star(In(Space)), L("identification")>>)>>), Star(In(Space \cup {":"})), Grp(Cat(<<Times(In(Digit), 2, 2), Opt(In(Space \cup {"-"})), Times(In(Digit), 7, 7)>>))>>)

naics_pattern ==
    Cat(<<Alt(<<L("naics"), Cat(<<L("business"), Star(In(Space)), Opt(Cat(<<L("activity"), Star(In(Space))>>)), L("code")>>)>>), Star(In(Space \cup {":"})), Grp(Times(In(Digit), 6, 6))>>)

activity_pattern ==
    Cat(<<Opt(Cat(<<L("principal"), Star(In(Space))>>)), L("business"), Star(In(Space)), L("activity"), Plus(In(Space \cup {":"})), Grp(Plus(NotIn({"\n"})))>>)

\* detect_accounting_method
DetectAccountingMethod(lower) ==
    IF Contains(lower, "accrual") THEN "Accrual"
    ELSE IF Contains(lower, "cash") THEN "Cash"
    ELSE "Accrual"

\* extract_company_info
ExtractCompanyInfo(t, entity_type) ==
    [business_name |-> NameOrUnknown(NameFrom(name_patterns, t)),
     ein |-> GroupOrNone(SearchIgnoreCase(ein_pattern, t)),
     entity_type |-> entity_type,
     naics_code |-> GroupOrNone(SearchIgnoreCase(naics_pattern, t)),
     business_activity |-> StrippedOrNone(SearchIgnoreCase(activity_pattern, t)),
     fiscal_year_end |-> "12/31",
     accounting_method |-> DetectAccountingMethod(Lower(t))]

\* the numeric sections of the record parse_financial_data returns: each leaf
\* with the keys of the merged map it is read from, amounts.get(k1, 0),
\* amounts.get(k1, amounts.get(k2, 0)) or the sum of two such
record_sections == <<
    [section |-> "income_statement", leaves |-> <<
        [leaf |-> "gross_receipts_sales", how |-> "get", keys |-> <<"gross_receipts">>],
        [leaf |-> "returns_allowances", how |-> "get", keys |-> <<"returns_allowances">>],
        [leaf |-> "cost_of_goods_sold", how |-> "get", keys |-> <<"cogs">>],
        [leaf |-> "gross_profit", how |-> "get", keys |-> <<"gross_profit">>],
        [leaf |-> "total_income", how |-> "get", keys |-> <<"total_income">>],
        [leaf |-> "total_deductions", how |-> "get", keys |-> <<"total_deductions">>],
        [leaf |-> "taxable_income", how |-> "get", keys |-> <<"taxable_income">>],
        [leaf |-> "net_income", how |-> "get", keys |-> <<"net_income">>] >>],
    [section |-> "expenses", leaves |-> <<
        [leaf |-> "compensation_of_officers", how |-> "get", keys |-> <<"officer_compensation">>],
        [leaf |-> "salaries_wages", how |-> "get", keys |-> <<"salaries_wages">>],
        [leaf |-> "repairs_maintenance", how |-> "get", keys |-> <<"repairs">>],
        [leaf |-> "bad_debts", how |-> "get", keys |-> <<"bad_debts">>],
        [leaf |-> "rents", how |-> "get", keys |-> <<"rents">>],
        [leaf |-> "taxes_licenses", how |-> "get", keys |-> <<"taxes_licenses">>],
        [leaf |-> "interest", how |-> "get", keys |-> <<"interest_expense">>],
        [leaf |-> "depreciation", how |-> "get", keys |-> <<"depreciation">>],
        [leaf |-> "depletion", how |-> "get", keys |-> <<"depletion">>],
        [leaf |-> "advertising", how |-> "get", keys |-> <<"advertising">>],
        [leaf |-> "pension_profit_sharing", how |-> "get", keys |-> <<"pension">>],
        [leaf |-> "employee_benefits", how |-> "get", keys |-> <<"employee_benefits">>],
        [leaf |-> "other_deductions", how |-> "get", keys |-> <<"other_deductions">>] >>],
    [section |-> "balance_sheet", leaves |-> <<
        [leaf |-> "total_assets", how |-> "get", keys |-> <<"total_assets">>],
        [leaf |-> "cash", how |-> "get", keys |-> <<"cash">>],
        [leaf |-> "accounts_receivable", how |-> "get", keys |-> <<"accounts_receivable">>],
        [leaf |-> "inventory", how |-> "get", keys |-> <<"inventory">>],
        [leaf |-> "fixed_assets", how |-> "get", keys |-> <<"fixed_assets">>],
        [leaf |-> "accumulated_depreciation", how |-> "get", keys |-> <<"accumulated_depreciation">>],
        [leaf |-> "other_assets", how |-> "get", keys |-> <<"other_assets">>],
        [leaf |-> "total_liabilities", how |-> "get", keys |-> <<"total_liabilities">>],
        [leaf |-> "accounts_payable", how |-> "get", keys |-> <<"accounts_payable">>],
        [leaf |-> "loans_payable", how |-> "get", keys |-> <<"loans_payable">>],
        [leaf |-> "other_liabilities", how |-> "get", keys |-> <<"other_liabilities">>],
        [leaf |-> "retained_earnings", how |-> "get", keys |-> <<"retained_earnings">>],
        [leaf |-> "total_equity", how |-> "get", keys |-> <<"total_equity">>],
        [leaf |-> "boy_total_assets", how |-> "get", keys |-> <<"boy_total_assets">>],
        [leaf |-> "boy_total_liabilities", how |-> "get", keys |-> <<"boy_total_liabilities">>],
        [leaf |-> "boy_cash", how |-> "get", keys |-> <<"boy_cash">>],
        [leaf |-> "boy_accounts_receivable", how |-> "get", keys |-> <<"boy_accounts_receivable">>],
        [leaf |-> "boy_inventory", how |-> "get", keys |-> <<"boy_inventory">>],
        [leaf |-> "eoy_total_assets", how |-> "get", keys |-> <<"eoy_total_assets", "total_assets">>],
        [leaf |-> "eoy_total_liabilities", how |-> "get", keys |-> <<"eoy_total_liabilities", "total_liabilities">>],
        [leaf |-> "eoy_cash", how |-> "get", keys |-> <<"eoy_cash", "cash">>],
        [leaf |-> "eoy_accounts_receivable", how |-> "get", keys |-> <<"eoy_accounts_receivable", "accounts_receivable">>],
        [leaf |-> "eoy_inventory", how |-> "get", keys |-> <<"eoy_inventory", "inventory">>],
        [leaf |-> "eoy_retained_earnings", how |-> "get", keys |-> <<"eoy_retained_earnings", "retained_earnings">>] >>],
    [section |-> "schedule_k", leaves |-> <<
        [leaf |-> "section_179_deduction", how |-> "get", keys |-> <<"section_179">>],
        [leaf |-> "charitable_contributions", how |-> "get", keys |-> <<"charitable">>],
        [leaf |-> "capital_gains", how |-> "sum", keys |-> <<"capital_gains_short", "capital_gains_long">>],
        [leaf |-> "capital_gains_short", how |-> "get", keys |-> <<"capital_gains_short">>],
        [leaf |-> "capital_gains_long", how |-> "get", keys |-> <<"capital_gains_long">>],
        [leaf |-> "total_distributions", how |-> "get", keys |-> <<"distributions">>],
        [leaf |-> "distributions_cash", how |-> "get", keys |-> <<"distributions">>],
        [leaf |-> "distributions_property", how |-> "get", keys |-> <<"distributions_property">>] >>],
    [section |-> "owner_info", leaves |-> <<
        [leaf |-> "owner_compensation", how |-> "get", keys |-> <<"officer_compensation">>],
        [leaf |-> "guaranteed_payments", how |-> "get", keys |-> <<"guaranteed_payments">>],
        [leaf |-> "distributions", how |-> "get", keys |-> <<"distributions">>],
        [leaf |-> "loans_to_shareholders", how |-> "get", keys |-> <<"loans_to_shareholders">>],
        [leaf |-> "loans_from_shareholders", how |-> "get", keys |-> <<"loans_from_shareholders">>] >>],
    [section |-> "covid_adjustments", leaves |-> <<
        [leaf |-> "ppp_loan_forgiveness", how |-> "get", keys |-> <<"ppp_forgiveness">>],
        [leaf |-> "eidl_advances", how |-> "get", keys |-> <<"eidl_advance">>],
        [leaf |-> "employee_retention_credit", how |-> "get", keys |-> <<"erc_credit">>] >>] >>

SectionNames == {record_sections[k].section : k \in DOMAIN record_sections}

\* the value of one leaf
LeafValue(amts, entry) ==
    IF entry.how = "sum" THEN Get(amts, entry.keys[1]) + Get(amts, entry.keys[2])
    ELSE IF entry.keys[1] \in DOMAIN amts THEN amts[entry.keys[1]]
    ELSE IF Len(entry.keys) > 1 THEN Get(amts, entry.keys[2])
    ELSE 0

\* mutant: a section holds only the leaves whose field was extracted
SectionOfExtracted(amts, leaves) ==
    [name \in {leaves[k].leaf : k \in {j \in DOMAIN leaves : leaves[j].keys[1] \in DOMAIN amts}} |->
        LeafValue(amts, leaves[CHOOSE k \in DOMAIN leaves : leaves[k].leaf = name])]

\* one section: every leaf, with its value
SectionOf(amts, leaves) ==
    [name \in {leaves[k].leaf : k \in DOMAIN leaves} |->
        LeafValue(amts, leaves[CHOOSE k \in DOMAIN leaves : leaves[k].leaf = name])]

\* the numeric sections of the record
Sections(amts) ==
    [s \in SectionNames |->
        SectionOf(amts, record_sections[CHOOSE k \in DOMAIN record_sections :
                                            record_sections[k].section = s].leaves)]

\* the record parse_financial_data returns
ParsedRecord(cls, year, amts, t) ==
    Sections(amts) @@
    [document_type |-> Display(DOC_TYPE_DISPLAY, cls.document_type),
     entity_type |-> Display(ENTITY_TYPE_DISPLAY, cls.entity_type),
     tax_year |-> year,
     company_info |-> ExtractCompanyInfo(t, Display(ENTITY_TYPE_DISPLAY, cls.entity_type)),
     classification |->
         [document_type_internal |-> cls.document_type,
          jurisdiction |-> cls.jurisdiction,
          confidence_score |-> cls.confidence_score,
          classification_reasons |-> cls.classification_reasons]]

\* ------------------------------------------------------------------------
\* BalanceSheetExtractor: the liabilities
\* ------------------------------------------------------------------------

\* total_patterns of _extract_liabilities_section
liabilities_total_patterns == <<
    Cat(<<L("total"), Star(In(Space)), L("liabilities"), Star(In(Space \cup {":"})), Opt(L("$")), Grp(Cat(<<Plus(In(Digit \cup {","})), Opt(L(".")), Star(In(Digit))>>))>>),
    Cat(<<L("total"), Star(In(Space)), L("liabilities"), Star(In(Space)), Opt(L("$")), Star(In(Space)), Grp(Cat(<<Plus(In(Digit \cup {","})), Opt(L(".")), Star(In(Digit))>>))>>) >>

\* liability_patterns of _extract_liabilities_section
liability_patterns == <<
    [field |-> "accounts_payable", patterns |-> <<Cat(<<L("account"), Opt(L("s")), Star(In(Space)), L("payable")>>), L("a/p"), Cat(<<L("trade"), Star(In(Space)), L("payable")>>)>>],
    [field |-> "current", patterns |-> <<Cat(<<L("total"), Star(In(Space)), L("current"), Star(In(Space)), L("liabilities")>>), Cat(<<L("current"), Star(In(Space)), L("liabilities")>>)>>],
    [field |-> "long_term", patterns |-> <<Cat(<<L("long"), Star(In(Space \cup {"-"})), L("term"), Star(Dot), Alt(<<L("debt"), L("liabilities")>>)>>), Cat(<<L("note"), Opt(L("s")), Star(In(Space)), L("payable")>>)>>],
    [field |-> "loans_from_shareholders", patterns |-> <<Cat(<<L("loan"), Star(Dot), Alt(<<L("payable"), L("from")>>), Star(Dot), Alt(<<L("shareholder"), L("owner"), L("member")>>)>>), Cat(<<L("due"), Star(In(Space)), L("to"), Star(In(Space)), L("shareholder")>>)>>] >>

\* eidl_patterns of _extract_liabilities_section
eidl_patterns == <<
    Cat(<<L("eidl"), LazyStar(Dot), L("loan"), Star(In(Space \cup {":"})), Opt(L("$")), Grp(Cat(<<Plus(In(Digit \cup {","})), Opt(L(".")), Star(In(Digit))>>))>>),
    Cat(<<L("eidl"), Plus(In(Space \cup {"-"})), Grp(Cat(<<Plus(In(Digit \cup {","})), Opt(L(".")), Star(In(Digit))>>))>>),
    Cat(<<L("economic"), Star(In(Space)), L("injury"), LazyStar(Dot), L("loan"), Star(In(Space \cup {":"})), Opt(L("$")), Grp(Cat(<<Plus(In(Digit \cup {","})), Opt(L(".")), Star(In(Digit))>>))>>) >>

\* ppp_patterns of _extract_liabilities_section
ppp_patterns == <<
    Cat(<<L("ppp"), LazyStar(Dot), L("loan"), Star(In(Space \cup {":"})), Opt(L("$")), Grp(Cat(<<Plus(In(Digit \cup {","})), Opt(L(".")), Star(In(Digit))>>))>>),
    Cat(<<L("ppp"), Plus(In(Space \cup {"-"})), Grp(Cat(<<Plus(In(Digit \cup {","})), Opt(L(".")), Star(In(Digit))>>))>>),
    Cat(<<L("paycheck"), Star(In(Space)), L("protection"), LazyStar(Dot), L("loan"), Star(In(Space \cup {":"})), Opt(L("$")), Grp(Cat(<<Plus(In(Digit \cup {","})), Opt(L(".")), Star(In(Digit))>>))>>) >>

\* LoanOf without the note for a balance a table gave
LoanOfTextNote(note, from_text, from_table) ==
    LET tabled == /\ from_text = Null \/ ~Truthy(Val(from_text))
                  /\ from_table # Null /\ Truthy(Val(from_table))
    IN  [balance |-> IF tabled THEN from_table ELSE from_text,
         notes |-> IF from_text # Null THEN <<<<note, Val(from_text)>>>> ELSE <<>>]

\* a COVID loan, looked for in the text and, if the text gives no balance or
\* 0, in the tables: the balance (Null if none) and the notes added, each
\* with the amount it shows
LoanOf(note, from_text, from_table) ==
    LET tabled == /\ from_text = Null \/ ~Truthy(Val(from_text))
                  /\ from_table # Null /\ Truthy(Val(from_table))
    IN  [balance |-> IF tabled THEN from_table ELSE from_text,
         notes |-> (IF from_text # Null THEN <<<<note, Val(from_text)>>>> ELSE <<>>)
                   \o (IF tabled THEN <<<<note, Val(from_table)>>>> ELSE <<>>)]

\* the liabilities of a total, line items and the two loans
LiabilitiesOf(total, items, eidl_loan, ppp_loan) ==
    Merged(items, MapOf(<<"total", "eidl_loan", "ppp_loan">>, <<total, eidl_loan, ppp_loan>>))

\* BalanceSheetExtractor._extract_liabilities_section: the map it returns and
\* the notes it adds
SectionWithLoans(total, items, eidl, ppp) ==
    [liabilities |-> LiabilitiesOf(total, items, eidl.balance, ppp.balance),
     notes |-> eidl.notes \o ppp.notes]

ExtractLiabilitiesSection(lt, tbls) ==
    SectionWithLoans(
        SectionTotal(liabilities_total_patterns, lt),
        LineItems(liability_patterns, tbls),
        LoanOf("EIDL Loan detected", SectionTotal(eidl_patterns, lt),
               ExtractFromTable(L("eidl"), tbls)),
        LoanOf("PPP Loan detected", SectionTotal(ppp_patterns, lt),
               ExtractFromTable(L("ppp"), tbls)))

\* ------------------------------------------------------------------------
\* BalanceSheetExtractor: the equity and the company name
\* ------------------------------------------------------------------------

\* total_patterns of _extract_equity_section
equity_total_patterns == <<
    Cat(<<L("total"), Star(In(Space)), Opt(Cat(<<L("shareholder"), Opt(L("s")), Star(In(Space))>>)), L("equity"), Star(In(Space \cup {":"})), Opt(L("$")), Grp(Cat(<<Plus(In(Digit \cup {","})), Opt(L(".")), Star(In(Digit))>>))>>),
    Cat(<<L("total"), Star(In(Space)), Opt(Cat(<<L("owner"), Opt(L("'")), Opt(L("s")), Star(In(Space))>>)), L("equity"), Star(In(Space \cup {":"})), Opt(L("$")), Grp(Cat(<<Plus(In(Digit \cup {","})), Opt(L(".")), Star(In(Digit))>>))>>),
    Cat(<<L("total"), Star(In(Space)), L("liabilities"), Star(In(Space)), Alt(<<L("and"), L("&")>>), Star(In(Space)), L("equity"), Star(In(Space \cup {":"})), Opt(L("$")), Grp(Cat(<<Plus(In(Digit \cup {","})), Opt(L(".")), Star(In(Digit))>>))>>) >>

\* re_patterns of _extract_equity_section, each with its source text
re_patterns == <<
    [source |-> "retained\\s*earnings[:\\s]*-?\\$?([\\d,]+\\.?\\d*)",
     pattern |-> Cat(<<L("retained"), Star(In(Space)), L("earnings"), Star(In(Space \cup {":"})), Opt(L("-")), Opt(L("$")), Grp(Cat(<<Plus(In(Digit \cup {","})), Opt(L(".")), Star(In(Digit))>>))>>)],
    [source |-> "retained\\s*earnings[:\\s]*\\(([\\d,]+\\.?\\d*)\\)",
     pattern |-> Cat(<<L("retained"), Star(In(Space)), L("earnings"), Star(In(Space \cup {":"})), L("("), Grp(Cat(<<Plus(In(Digit \cup {","})), Opt(L(".")), Star(In(Digit))>>)), L(")")>>)] >>

\* dist_patterns of _extract_equity_section
dist_patterns == <<
    Cat(<<Opt(Cat(<<L("shareholder"), Star(In(Space))>>)), L("distribution"), Opt(L("s")), Star(In(Space \cup {":"})), Opt(L("-")), Opt(L("$")), Grp(Cat(<<Plus(In(Digit \cup {","})), Opt(L(".")), Star(In(Digit))>>))>>),
    Cat(<<L("distribution"), Opt(L("s")), Star(In(Space \cup {":"})), L("("), Grp(Cat(<<Plus(In(Digit \cup {","})), Opt(L(".")), Star(In(Digit))>>)), L(")")>>) >>

\* abs(x) of a float
FloatAbs(x) == IF x.kind = "nan" THEN x ELSE [kind |-> x.kind, value |-> Abs(x.value)]

\* the retained earnings a match gives: the amount or 0, negated if the
\* pattern's text holds a parenthesis
RetainedOfMatch(entry, m) ==
    IF ~m.found THEN Null
    ELSE IF Contains(entry.source, "(") THEN Some(FloatNeg(OrZero(ParseAmount(m.group1))))
    ELSE Some(OrZero(ParseAmount(m.group1)))

\* the retained earnings of the text: the first pattern that matches decides
RetainedFromText(lt) ==
    FirstSome([k \in 1..Len(re_patterns) |->
                  RetainedOfMatch(re_patterns[k], Search(re_patterns[k].pattern, lt))])

\* if not equity.get("retained_earnings"): the tables' value, if they have one
RetainedEarnings(from_text, from_table) ==
    IF (from_text = Null \/ ~Truthy(Val(from_text))) /\ from_table # Null
    THEN from_table ELSE from_text

\* the distributions a match gives: made negative if positive, stored as abs()
DistributionOfMatch(m) ==
    IF ~m.found THEN Null
    ELSE IF Positive(OrZero(ParseAmount(m.group1)))
    THEN Some(FloatAbs(FloatNeg(OrZero(ParseAmount(m.group1)))))
    ELSE Some(FloatAbs(OrZero(ParseAmount(m.group1))))

Distributions(lt) ==
    FirstSome([k \in 1..Len(dist_patterns) |-> DistributionOfMatch(Search(dist_patterns[k], lt))])

\* BalanceSheetExtractor._extract_equity_section: the map it returns
ExtractEquitySection(lt, tbls) ==
    MapOf(<<"total", "retained_earnings", "distributions">>,
          <<SectionTotal(equity_total_patterns, lt),
            RetainedEarnings(RetainedFromText(lt),
                             ExtractFromTable(Cat(<<L("retained"), Star(In(Space)), L("earnings")>>), tbls)),
            Distributions(lt)>>)

\* EquityRedFlags with the flag raised at 0 as well
EquityRedFlagsAtZero(section) ==
    IF ~Positive(GetOrZero(section, "retained_earnings"))
    THEN <<<<"Negative retained earnings", GetOrZero(section, "retained_earnings")>>>> ELSE <<>>

\* the red flags and the notes _extract_equity_section adds
EquityRedFlags(section) ==
    IF Negative(GetOrZero(section, "retained_earnings"))
    THEN <<<<"Negative retained earnings", section["retained_earnings"]>>>> ELSE <<>>

\* 100000, in units of 1/AmountScale
LargeDistributions == 100000 * AmountScale

EquityNotes(section) ==
    IF Positive(FloatAdd(GetOrZero(section, "distributions"), Num(0 - LargeDistributions)))
    THEN <<<<"Large shareholder distributions", section["distributions"]>>>> ELSE <<>>

\* patterns of _extract_company_name (matched with re.IGNORECASE | re.MULTILINE)
company_name_patterns == <<
    Cat(<<Bol(TRUE), Grp(Cat(<<In(LowerAZ), Plus(In(LowerAZ \cup Space \cup {"&", ",", "."})), Alt(<<L("inc"), L("llc"), L("corp"), L("co"), L("lp"), L("llp"), L("company")>>)>>)), Star(NotIn({"\n"})), L("\n"), Star(Dot), L("balance"), Star(In(Space)), L("sheet")>>),
    Cat(<<Grp(Cat(<<In(LowerAZ), Plus(In(LowerAZ \cup Space \cup {"&", ",", "."})), Alt(<<L("inc"), L("llc"), L("corp"), L("co"), L("lp"), L("llp"), L("company")>>)>>)), Star(In(Space)), L("\n")>>),
    Cat(<<Bol(TRUE), Grp(Plus(NotIn({"\n"}))), Star(In(Space)), L("\n"), Star(In(Space)), L("balance"), Star(In(Space)), L("sheet")>>) >>

\* BalanceSheetExtractor._extract_company_name
ExtractCompanyName(t) == [business_name |-> NameOrUnknown(NameFrom(company_name_patterns, t))]

\* ------------------------------------------------------------------------
\* BaseExtractor.extract_amount and VirginiaForm500Extractor
\* ------------------------------------------------------------------------

\* float() of the group a pattern of extract_amount captured, with ',' and
\* '$' removed and a '(' read as a minus sign: Null for the ValueError
AmountOfGroup(group) ==
    LET value_str == Strip(ReplaceChars(group, {",", "$"}, <<>>))
    IN  IF "(" \in Chars(value_str)
        THEN ParseFloat("-" \o ReplaceChars(value_str, {"(", ")"}, <<>>))
        ELSE ParseFloat(value_str)

AmountOfMatch(m) == IF m.found THEN AmountOfGroup(m.group1) ELSE Null

\* the value if there is one, else the default
ValueOr(value, default) == IF value = Null THEN default ELSE Val(value)

\* BaseExtractor.extract_amount: the amount of the first pattern that matches
\* and whose group float() accepts, else the default
ExtractAmount(patterns, lt, default) ==
    ValueOr(FirstSome([k \in 1..Len(patterns) |-> AmountOfMatch(Search(patterns[k], lt))]),
            default)

\* patterns of VirginiaForm500Extractor._extract_tax_year
virginia_year_patterns == <<
    Cat(<<Grp(Times(In(Digit), 4, 4)), Star(In(Space)), L("virginia")>>),
    Cat(<<L("tax"), Star(In(Space)), L("year"), Star(In(Space)), Grp(Times(In(Digit), 4, 4))>>),
    Cat(<<L("for"), Star(In(Space)), Opt(Cat(<<L("taxable"), Star(In(Space))>>)), L("year"), Star(In(Space)), Grp(Times(In(Digit), 4, 4))>>),
    Cat(<<L("virginia"), LazyStar(Dot), Grp(Times(In(Digit), 4, 4)), Star(In(Space)), L("form"), Star(In(Space)), L("500")>>) >>

\* name_patterns of VirginiaForm500Extractor._extract_company_info (matched with re.IGNORECASE | re.MULTILINE)
virginia_name_patterns == <<
    Cat(<<L("name"), Star(In(Space)), L("of"), Star(In(Space)), L("corporation"), Star(In(Space \cup {":"})), Grp(Plus(NotIn({"\n"})))>>),
    Cat(<<L("corporation"), Star(In(Space)), L("name"), Star(In(Space \cup {":"})), Grp(Plus(NotIn({"\n"})))>>),
    Cat(<<Bol(TRUE), Grp(Cat(<<In(LowerAZ), Plus(In(LowerAZ \cup Space \cup {"&", ",", "."})), Alt(<<L("inc"), L("llc"), L("corp"), L("co"), L("lp"), L("llp")>>)>>))>>) >>

\* the patterns of the FEIN and of the NAICS code
fein_pattern ==
    Cat(<<L("fein"), Star(In(Space \cup {":"})), Grp(Cat(<<Times(In(Digit), 2, 2), Opt(In(Space \cup {"-"})), Times(In(Digit), 7, 7)>>))>>)

virginia_naics_pattern ==
    Cat(<<L("naics"), Star(In(Space)), Opt(L("code")), Star(In(Space \cup {":"})), Grp(Times(In(Digit), 6, 6))>>)

\* federal_patterns of VirginiaForm500Extractor._extract_income_data
federal_patterns == <<
    Cat(<<L("federal"), Star(In(Space)), L("taxable"), Star(In(Space)), L("income"), LazyStar(Dot), Opt(L("$")), Star(In(Space)), Grp(Plus(In(Digit \cup {","})))>>),
    Cat(<<L("line"), Star(In(Space)), L("1"), Star(In(Space \cup {"."})), Opt(L("$")), Star(In(Space)), Grp(Plus(In(Digit \cup {","})))>>),
    Cat(<<L("taxable"), Star(In(Space)), L("income"), Star(In(Space)), L("from"), Star(In(Space)), L("federal"), Star(In(Space)), L("return"), LazyStar(Dot), Opt(L("$")), Star(In(Space)), Grp(Plus(In(Digit \cup {","})))>>) >>

\* additions_patterns of VirginiaForm500Extractor._extract_income_data
additions_patterns == <<
    Cat(<<L("total"), Star(In(Space)), L("additions"), LazyStar(Dot), Opt(L("$")), Star(In(Space)), Grp(Plus(In(Digit \cup {","})))>>),
    Cat(<<L("line"), Star(In(Space)), L("2"), Star(In(Space \cup {"."})), LazyStar(Dot), L("additions"), LazyStar(Dot), Opt(L("$")), Star(In(Space)), Grp(Plus(In(Digit \cup {","})))>>),
    Cat(<<L("schedule"), Star(In(Space)), L("500adj"), LazyStar(Dot), L("additions"), LazyStar(Dot), Opt(L("$")), Star(In(Space)), Grp(Plus(In(Digit \cup {","})))>>) >>

\* subtractions_patterns of VirginiaForm500Extractor._extract_income_data
subtractions_patterns == <<
    Cat(<<L("total"), Star(In(Space)), L("subtractions"), LazyStar(Dot), Opt(L("$")), Star(In(Space)), Grp(Plus(In(Digit \cup {","})))>>),
    Cat(<<L("line"), Star(In(Space)), L("4"), Star(In(Space \cup {"."})), LazyStar(Dot), L("subtractions"), LazyStar(Dot), Opt(L("$")), Star(In(Space)), Grp(Plus(In(Digit \cup {","})))>>) >>

\* va_taxable_patterns of VirginiaForm500Extractor._extract_income_data
va_taxable_patterns == <<
    Cat(<<L("virginia"), Star(In(Space)), L("taxable"), Star(In(Space)), L("income"), LazyStar(Dot), Opt(L("$")), Star(In(Space)), Grp(Plus(In(Digit \cup {","})))>>),
    Cat(<<L("line"), Star(In(Space)), L("7"), Star(In(Space \cup {"."})), Opt(L("$")), Star(In(Space)), Grp(Plus(In(Digit \cup {","})))>>),
    Cat(<<L("taxable"), Star(In(Space)), L("income"), Star(In(Space)), L("apportioned"), LazyStar(Dot), Opt(L("$")), Star(In(Space)), Grp(Plus(In(Digit \cup {","})))>>) >>

\* nol_patterns of VirginiaForm500Extractor._extract_income_data
nol_patterns == <<
    Cat(<<L("net"), Star(In(Space)), L("operating"), Star(In(Space)), L("loss"), LazyStar(Dot), L("deduction"), LazyStar(Dot), Opt(L("$")), Star(In(Space)), Grp(Plus(In(Digit \cup {","})))>>),
    Cat(<<L("nol"), Star(In(Space)), L("deduction"), LazyStar(Dot), Opt(L("$")), Star(In(Space)), Grp(Plus(In(Digit \cup {","})))>>) >>

\* before_nol_patterns of VirginiaForm500Extractor._extract_schedule_500fed
before_nol_patterns == <<
    Cat(<<L("federal"), Star(In(Space)), L("taxable"), Star(In(Space)), L("income"), Star(In(Space)), L("before"), Star(In(Space)), L("nol"), LazyStar(Dot), Opt(L("$")), Star(In(Space)), Grp(Plus(In(Digit \cup {","})))>>),
    Cat(<<L("taxable"), Star(In(Space)), L("income"), Star(In(Space)), L("before"), Star(In(Space)), L("nol"), LazyStar(Dot), Opt(L("$")), Star(In(Space)), Grp(Plus(In(Digit \cup {","})))>>) >>

\* depreciation_patterns of VirginiaForm500Extractor._extract_schedule_500fed
depreciation_patterns == <<
    Cat(<<L("other"), Star(In(Space)), L("depreciation"), LazyStar(Dot), Opt(L("$")), Star(In(Space)), Grp(Plus(In(Digit \cup {","})))>>),
    Cat(<<L("line"), Star(In(Space)), L("11"), Star(In(Space \cup {"."})), Opt(L("$")), Star(In(Space)), Grp(Plus(In(Digit \cup {","})))>>),
    Cat(<<L("depreciation"), LazyStar(Dot), Opt(L("$")), Star(In(Space)), Grp(Plus(In(Digit \cup {","})))>>) >>

\* property_patterns of VirginiaForm500Extractor._extract_apportionment
property_patterns == <<
    Cat(<<L("property"), Star(In(Space)), L("factor"), LazyStar(Dot), Grp(Plus(In(Digit \cup {"."}))), Star(In(Space)), L("%")>>) >>

\* payroll_patterns of VirginiaForm500Extractor._extract_apportionment
payroll_patterns == <<
    Cat(<<L("payroll"), Star(In(Space)), L("factor"), LazyStar(Dot), Grp(Plus(In(Digit \cup {"."}))), Star(In(Space)), L("%")>>) >>

\* sales_patterns of VirginiaForm500Extractor._extract_apportionment
sales_patterns == <<
    Cat(<<L("sales"), Star(In(Space)), L("factor"), LazyStar(Dot), Grp(Plus(In(Digit \cup {"."}))), Star(In(Space)), L("%")>>) >>

\* multi_factor_patterns of VirginiaForm500Extractor._extract_apportionment
multi_factor_patterns == <<
    Cat(<<L("multi"), Star(In(Space \cup {"-"})), L("factor"), LazyStar(Dot), L("percentage"), LazyStar(Dot), Grp(Plus(In(Digit \cup {"."}))), Star(In(Space)), L("%")>>),
    Cat(<<L("apportionment"), LazyStar(Dot), L("percentage"), LazyStar(Dot), Grp(Plus(In(Digit \cup {"."}))), Star(In(Space)), L("%")>>),
    Cat(<<L("virginia"), LazyStar(Dot), L("percentage"), LazyStar(Dot), Grp(Plus(In(Digit \cup {"."}))), Star(In(Space)), L("%")>>) >>
\* VirginiaForm500Extractor._extract_tax_year
VirginiaTaxYear(lt) == YearFrom(virginia_year_patterns, lt)

\* VirginiaForm500Extractor._extract_company_info
VirginiaCompanyInfo(t, lt) ==
    [business_name |-> NameOrUnknown(NameFrom(virginia_name_patterns, t)),
     ein |-> GroupOrNone(Search(fein_pattern, lt)),
     naics_code |-> GroupOrNone(Search(virginia_naics_pattern, lt)),
     state |-> "VA",
     entity_type |-> "Corporation"]

\* VirginiaForm500Extractor._extract_income_data
ExtractIncomeData(lt) ==
    [federal_taxable_income |-> ExtractAmount(federal_patterns, lt, Zero),
     virginia_additions |-> ExtractAmount(additions_patterns, lt, Zero),
     virginia_subtractions |-> ExtractAmount(subtractions_patterns, lt, Zero),
     virginia_taxable_income |-> ExtractAmount(va_taxable_patterns, lt, Zero),
     net_operating_loss |-> ExtractAmount(nol_patterns, lt, Zero)]

\* VirginiaForm500Extractor._extract_schedule_500fed: the data, and the note
\* it adds when it found any
Schedule500FedData(lt) ==
    [federal_taxable_income_before_nol |-> ExtractAmount(before_nol_patterns, lt, Zero),
     depreciation |-> ExtractAmount(depreciation_patterns, lt, Zero)]

Schedule500FedNotes(data) ==
    IF Truthy(data.federal_taxable_income_before_nol) \/ Truthy(data.depreciation)
    THEN <<<<"Schedule 500FED data extracted">>>> ELSE <<>>

\* 100%, the share of a single-state corporation
WholePercentage == Num(100 * AmountScale)

\* ZeroAsWhole without the rule: a percentage of 0 stays 0
ZeroAsWholeKept(percentage) == percentage

\* if data["multi_factor_percentage"] == 0: data["multi_factor_percentage"] = 100.0
ZeroAsWhole(percentage) == IF FloatEq(percentage, Zero) THEN WholePercentage ELSE percentage

\* VirginiaForm500Extractor._extract_apportionment
ExtractApportionment(lt) ==
    [property_factor |-> ExtractAmount(property_patterns, lt, Zero),
     payroll_factor |-> ExtractAmount(payroll_patterns, lt, Zero),
     sales_factor |-> ExtractAmount(sales_patterns, lt, Zero),
     multi_factor_percentage |->
         ZeroAsWhole(ExtractAmount(multi_factor_patterns, lt, WholePercentage))]

\* x < y of floats
FloatLess(x, y) ==
    /\ x.kind # "nan" /\ y.kind # "nan"
    /\ IF x.kind = "inf" THEN x.value < 0 /\ y # x
       ELSE IF y.kind = "inf" THEN y.value > 0
       ELSE x.value < y.value

\* if apportionment.get("multi_factor_percentage", 0) < 100: add the note
ApportionmentNotes(data) ==
    IF FloatLess(data.multi_factor_percentage, WholePercentage)
    THEN <<<<"Multi-state apportionment", data.multi_factor_percentage>>>> ELSE <<>>

\* 0.85 and 0.80 as scores
Hundredths(n) == (n * ScoreOne) \div 100

\* the ExtractionResult VirginiaForm500Extractor.extract returns
VirginiaResult(year, company, income, fed, data, flags, notes) ==
    [document_type |-> "va_form_500",
     tax_year |-> year,
     entity_type |-> "Corporation",
     company_info |-> company,
     income_data |->
         [federal_taxable_income |-> income.federal_taxable_income,
          virginia_additions |-> income.virginia_additions,
          virginia_subtractions |-> income.virginia_subtractions,
          virginia_taxable_income |-> income.virginia_taxable_income,
          net_operating_loss_deduction |-> income.net_operating_loss,
          federal_taxable_income_before_nol |-> fed.federal_taxable_income_before_nol,
          apportionment_percentage |-> data.multi_factor_percentage],
     expense_data |-> [depreciation |-> fed.depreciation],
     balance_sheet_data |-> NoAmounts,
     schedule_k_data |-> NoAmounts,
     owner_info |-> NoAmounts,
     covid_adjustments |-> NoAmounts,
     red_flags |-> flags,
     extraction_notes |-> notes,
     confidence_scores |-> [overall |-> Hundredths(80)]]

\* ------------------------------------------------------------------------
\* Inputs
\* ------------------------------------------------------------------------

\* a document has at most MaxLines of the lines of a pool, in the pool's order
MaxLines == 3

Selections(n) == {S \in SUBSET (1..n) : Cardinality(S) <= MaxLines}

RECURSIVE JoinFrom(_, _, _)
JoinFrom(lines, S, k) ==
    IF k > Len(lines) THEN ""
    ELSE (IF k \in S THEN lines[k] ELSE "") \o JoinFrom(lines, S, k + 1)

TextsOf(lines) == {JoinFrom(lines, S, 1) : S \in Selections(Len(lines))}

ClassifyLines == <<
    "Form 1120-S\n",
    "Compensation of officers\n",
    "Ordinary business income\n",
    "Balance Sheet\n",
    "Total Assets\nTotal Liabilities\n",
    "Profit or Loss From Business: gross receipts, net profit\n",
    "Income Statement (Profit & Loss)\nStatement of Operations: revenue, net income\n",
    "Tax Year 1999\n",
    "Tax year ending 2024\n",
    "As of December 31, 2023\n",
    "as of 03/15/2031\n",
    "Notes to the accounts\n" >>

Filenames == {"scan.pdf", "2023_1120S_Balance.pdf"}

\* the years the clock may show at the call
ClockYears == {2026, 2033}

\* a call that is no endpoint has no request body and no handler locals
NoRequest == [key \in {} |-> 0]
NoLocals == [name \in {} |-> 0]

\* the entry points that are endpoints: src/modal and src/lib/extraction/modal
Endpoints == {"extract_pdf", "lib.extract_pdf"}

\* ------------------------------------------------------------------------
\* DocumentClassifier.classify, one step per iteration of its loop
\* ------------------------------------------------------------------------

\* the state in which the entry point c is entered; req is the request body
\* when c is an endpoint
InitState(c, t, f, tb, y, req) ==
    /\ call = c
    /\ text = t
    /\ lower_text = Lower(t)
    /\ filename = f
    /\ tables = tb
    /\ now = y
    /\ request = req
    /\ locals = NoLocals
    /\ calls = <<>>
    /\ idx = 1
    /\ scores = <<>>
    /\ classification = Null
    /\ text_amounts = NoAmounts
    /\ amounts = NoAmounts
    /\ table_amounts = <<>>
    /\ tax_year = Null
    /\ assets = NoAmounts
    /\ liabilities = NoAmounts
    /\ equity = NoAmounts
    /\ company_info = Null
    /\ income_data = NoAmounts
    /\ schedule_500fed = NoAmounts
    /\ apportionment = NoAmounts
    /\ red_flags = <<>>
    /\ extraction_notes = <<>>
    /\ record = Null

\* DocumentClassifier(text, filename, tables) constructed, classify() entered
InitCall(c, t, f, tb, y) == InitState(c, t, f, tb, y, NoRequest)

Init ==
    /\ pc = "scoring"
    /\ \E t \in TextsOf(ClassifyLines), f \in Filenames :
           InitCall("classify", t, f, <<>>, 0)

\* where the caller of classify() continues
AfterClassify == IF call = "classify" THEN "done" ELSE "tax_year"

\* for doc_type, signature in DOCUMENT_SIGNATURES.items(): scores[doc_type] = ...
ScoreSignature ==
    /\ pc = "scoring"
    /\ idx <= Len(DOCUMENT_SIGNATURES)
    /\ scores' = Append(scores, CalculateScore(DOCUMENT_SIGNATURES[idx], lower_text, Lower(filename)))
    /\ idx' = idx + 1
    /\ UNCHANGED <<pc, inputVars, classification, text_amounts, amounts, table_amounts,
                   extractorVars, record>>

\* if best_score < 0.3: the document is classified as Other
ClassifyOther ==
    /\ pc = "scoring"
    /\ idx > Len(DOCUMENT_SIGNATURES)
    /\ LET best == BestIndex(scores)
       IN  /\ scores[best].score < OtherThreshold
           /\ classification' = Some(
                 [document_type |-> "other",
                  entity_type |-> "Other",
                  tax_year |-> ExtractYear(lower_text),
                  jurisdiction |-> "Unknown",
                  confidence_score |-> scores[best].score,
                  classification_reasons |-> <<<<"No strong document type match found">>>>])
    /\ pc' = AfterClassify
    /\ UNCHANGED <<inputVars, idx, scores, text_amounts, amounts, table_amounts,
                   extractorVars, record>>

\* the best signature's result, with the year its document type calls for
ClassifyMatched ==
    /\ pc = "scoring"
    /\ idx > Len(DOCUMENT_SIGNATURES)
    /\ LET best == BestIndex(scores)
           signature == DOCUMENT_SIGNATURES[best]
       IN  /\ ~(scores[best].score < OtherThreshold)
           /\ classification' = Some(
                 [document_type |-> signature.doc_type,
                  entity_type |-> signature.entity_type,
                  tax_year |-> IF signature.doc_type = "balance_sheet"
                               THEN ExtractBalanceDateYear(lower_text)
                               ELSE ExtractYear(lower_text),
                  jurisdiction |-> signature.jurisdiction,
                  confidence_score |-> Confidence(scores[best].score),
                  classification_reasons |-> scores[best].reasons])
    /\ pc' = AfterClassify
    /\ UNCHANGED <<inputVars, idx, scores, text_amounts, amounts, table_amounts,
                   extractorVars, record>>

Next == ScoreSignature \/ ClassifyOther \/ ClassifyMatched

Spec == Init /\ [][Next]_vars

\* ------------------------------------------------------------------------
\* extract_amounts, one step for the text and one per table
\* ------------------------------------------------------------------------

\* the documents extract_amounts is called on
\* a number of 309 digits, too large for a float
LongNumber ==
    "9999999999999999999999999999999999999999999999999999999999999999999999999999999999999999999999999999999"
    \o "9999999999999999999999999999999999999999999999999999999999999999999999999999999999999999999999999999999"
    \o "9999999999999999999999999999999999999999999999999999999999999999999999999999999999999999999999999999999"

AmountTexts == {
    "",
    "Total assets $ 500,000\n",
    "Gross receipts or sales 1,250,000\nCash 0\n",
    "Cash 2,000\nTotal assets 500,000\nTotal liabilities ,\n",
    "Rent 12,000\nInterest expense 300\n",
    "Inventory: none\nRetained earnings 40,000\n",
    "Line 1a 900 Line 2 0\nOfficer compensation $75,000",
    "Cost of goods sold 0\nLine 2 400,000\nGross profit ,\nLine 3 250\nTotal sales 7\nGross receipts 5\nCash 0\n",
    "Total sales 1,200\nGross receipts " \o LongNumber \o "\n" }

\* the tables a document may hold
AmountTables == <<
    [rows |-> << <<"Total Assets", "", "$510,000">>, <<"Total Liabilities", "210,000">> >>],
    [rows |-> << <<"", "Total assets", "520,000", "">>, <<"Cash", "(2,500)">>,
                 <<"Total assets (restated)", "525,000", "n/a">> >>],
    [rows |-> << <<"Cash and equivalents", "2,600.75">>, <<"Inventory", "0.4">>,
                 <<"Gross receipts 1,100,000">> >>],
    [rows |-> << <<"Total Assets", "530,000">>, <<"Cash", "inf">> >>],
    [rows |-> << <<"Rent expense", "nan", "">>, <<"Gross receipts", "1,300,000">>,
                 <<"Total revenue", "1,400,000">> >>],
    [rows |-> << <<"Memo", "12">>, <<"Interest", "-75", "n/a">>,
                 <<"Current assets", "90,000">>, <<"Net income on cash basis", "8,000">>,
                 <<"Note", "Inventory", "35">>, <<"  ", "Depreciation", "(1,500)", "0">> >>] >>

\* a document holds at most MaxTables tables
MaxTables == 2

RECURSIVE TableListsOf(_)
TableListsOf(n) ==
    IF n = 0 THEN {<<>>}
    ELSE LET shorter == TableListsOf(n - 1)
         IN  shorter \cup {Append(l, AmountTables[k]) :
                              l \in {x \in shorter : Len(x) = n - 1},
                              k \in 1..Len(AmountTables)}

InitAmounts ==
    /\ pc = "text_strategy"
    /\ \E t \in AmountTexts, tb \in TableListsOf(MaxTables) :
           InitCall("extract_amounts", t, "", tb, 0)

\* where an exception of parse_financial_data goes: into the endpoint's
\* except clause, or out of the call
WhereRaised == IF call \in Endpoints THEN "caught" ELSE "raised"

\* text_amounts = extract_amounts_from_text(text); amounts.update(text_amounts)
TextStrategy ==
    /\ pc = "text_strategy"
    /\ ~TextRaises(text)
    /\ text_amounts' = ExtractAmountsFromText(text)
    /\ amounts' = text_amounts'
    /\ idx' = 1
    /\ pc' = "table_strategy"
    /\ UNCHANGED <<inputVars, scores, classification, table_amounts, extractorVars, record>>

\* for table in tables: its map is extracted and merged
TableStrategy ==
    /\ pc = "table_strategy"
    /\ idx <= Len(tables)
    /\ ~ExtractAmountsFromTable(tables[idx]).raised
    /\ table_amounts' = Append(table_amounts, ExtractAmountsFromTable(tables[idx]).amounts)
    /\ amounts' = MergeTable(amounts, table_amounts'[idx])
    /\ idx' = idx + 1
    /\ UNCHANGED <<pc, inputVars, scores, classification, text_amounts, extractorVars, record>>

\* a number too large for a float after a label: the call ends in
\* OverflowError before any table is looked at
TextOverflow ==
    /\ pc = "text_strategy"
    /\ TextRaises(text)
    /\ pc' = WhereRaised
    /\ UNCHANGED <<inputVars, idx, scores, classification, text_amounts, amounts,
                   table_amounts, extractorVars, record>>

\* an infinite cell in a row of a known field: the call ends in OverflowError
TableOverflow ==
    /\ pc = "table_strategy"
    /\ idx <= Len(tables)
    /\ ExtractAmountsFromTable(tables[idx]).raised
    /\ pc' = WhereRaised
    /\ UNCHANGED <<inputVars, idx, scores, classification, text_amounts, amounts,
                   table_amounts, extractorVars, record>>

\* where the caller of extract_amounts() continues
AfterAmounts == IF call = "extract_amounts" THEN "done" ELSE "company_info"

\* return amounts
ReturnAmounts ==
    /\ pc = "table_strategy"
    /\ idx > Len(tables)
    /\ pc' = AfterAmounts
    /\ UNCHANGED <<inputVars, idx, scores, classification, text_amounts, amounts,
                   table_amounts, extractorVars, record>>

NextAmounts == TextStrategy \/ TextOverflow \/ TableStrategy \/ TableOverflow \/ ReturnAmounts

SpecAmounts == InitAmounts /\ [][NextAmounts]_vars

\* ------------------------------------------------------------------------
\* parse_financial_data: classify, the year, extract_amounts, the record
\* ------------------------------------------------------------------------

\* the lists of at most n tables of a pool
RECURSIVE ListsOf(_, _)
ListsOf(pool, n) ==
    IF n = 0 THEN {<<>>}
    ELSE LET shorter == ListsOf(pool, n - 1)
         IN  shorter \cup {Append(l, pool[k]) :
                              l \in {x \in shorter : Len(x) = n - 1},
                              k \in 1..Len(pool)}

\* the documents parse_financial_data is called on
ParseTexts == {
    "",
    "Acme Widgets LLC\nBalance Sheet\nAs of December 31, 2023\nTotal Assets 500,000\nTotal Liabilities 200,000\n",
    "Statement of Financial Position\nAssets, liabilities and equity\nCash basis\n",
    "Virginia Corporation Income Tax Return\nVA Form 500 Schedule 500FED\nFederal taxable income 90,000\nVirginia taxable income 80,000\n",
    "Form 1120-S for calendar year 2022\nName of corporation: Acme Widgets Inc\nEIN: 12-3456789\nGross receipts or sales 1,250,000\nCompensation of officers 75,000\nOrdinary business income 40,000\n",
    "Form 1065 U.S. Return of Partnership Income\nBusiness name: AB\nBusiness code 541211 Principal business activity: Accounting\nTax year 1999\n",
    "Employer id for Smith & Sons Co\nGross profit $ 200\nInvoice 2031 return\n",
    "Schedule C Profit or Loss From Business 2024 Form\nGross receipts 10 net profit accrual\n",
    "Gross receipts " \o LongNumber \o "\n" }

ParseTables == <<
    [rows |-> << <<"Total Assets", "", "$510,000">>, <<"Retained earnings", "(2,500)">> >>],
    [rows |-> << <<"Cash", "inf">>, <<"Gross receipts", "1,300,000">> >>],
    [rows |-> << <<"Officer compensation", "nan">>, <<"Distributions", "0.4", "-75">>,
                 <<"Memo">> >>] >>

InitParse ==
    /\ pc = "scoring"
    /\ \E t \in ParseTexts, tb \in ListsOf(ParseTables, MaxTables), y \in ClockYears :
           InitCall("parse_financial_data", t, "scan.pdf", tb, y)

\* tax_year = classification.tax_year or extract_tax_year(text)
ParseTaxYear ==
    /\ pc = "tax_year"
    /\ tax_year' = Some(YearOr(Val(classification).tax_year, ExtractTaxYear(text, now)))
    /\ pc' = "text_strategy"
    /\ UNCHANGED <<inputVars, idx, scores, classification, text_amounts, amounts,
                   table_amounts, sectionVars, red_flags, extraction_notes, record>>

\* where the caller of parse_financial_data() continues
AfterParse == IF call \in Endpoints THEN "response" ELSE "done"

\* company_info = extract_company_info(text, entity_type); return {...}
ParseReturn ==
    /\ pc = "company_info"
    /\ record' = Some(ParsedRecord(Val(classification), Val(tax_year), amounts, text))
    /\ pc' = AfterParse
    /\ UNCHANGED <<inputVars, idx, scores, classification, text_amounts, amounts,
                   table_amounts, extractorVars>>

NextParse ==
    \/ ScoreSignature \/ ClassifyOther \/ ClassifyMatched
    \/ ParseTaxYear
    \/ TextStrategy \/ TextOverflow \/ TableStrategy \/ TableOverflow \/ ReturnAmounts
    \/ ParseReturn

SpecParse == InitParse /\ [][NextParse]_vars

\* ------------------------------------------------------------------------
\* BalanceSheetExtractor.extract, one step per section
\* ------------------------------------------------------------------------

\* the balance sheets the extractor is given
BalanceTexts == {
    "Acme LLC\nBalance Sheet\nAs of December 31, 1999\nTotal Assets $120,000.50\n",
    "Balance Sheet as of December 31, 2023\nTotal Assets: 95,000\n",
    "Balance Sheet\nAs of 03/15/2031\n",
    "Balance Sheet\nAs of 2024-02-30\nTotal assets ,\n",
    "Balance Sheet\nAssets and Liabilities\n",
    "Statement through Dec 31,2099\nPeriod 2021\n",
    "Balance Sheet\nAs of December 31, 2021\nTotal Liabilities: $40,000\nEIDL Loan: $150,000\nPPP Loan 0\nRetained Earnings: (12,500)\nShareholder Distributions: -$120,000\nTotal Equity 5,000\n",
    "Northwind Traders Inc\nBalance Sheet\nAs of 12/31/2022\nEconomic injury disaster loan: ,\nPPP - 20,000\nRetained Earnings 50,000\nDistributions (100,000)\n",
    "Balance Sheet\nTotal liabilities and equity 75,000\nRetained earnings 0\nDistribution: 250\n" }

\* the tables a balance sheet may hold
BalanceTables == <<
    [rows |-> << <<"Fixed Assets", "20,000">>, <<"Accumulated Depreciation", "5,000">> >>],
    [rows |-> << <<"Fixed Assets", "", "20,000.50">>, <<"Accumulated Depreciation">> >>],
    [rows |-> << <<"Less accumulated depreciation", "(1,250.25)">>,
                 <<"Shareholder loan", "$3,000">> >>],
    [rows |-> << <<"Equipment", "nan">>, <<"Accum. Depr.", "inf", "-">> >>],
    [rows |-> << <<"Cash", "n/a", "-">>, <<"Total Fixed Assets", "0">>,
                 <<"Furniture", "700">> >>],
    [rows |-> << <<"Cash", "(2,500)">>, <<"EIDL loan", "149,900">>,
                 <<"Accounts payable", "-1,200">> >>],
    [rows |-> << <<"PPP", "0">>, <<"Retained Earnings", "(30,000)">>,
                 <<"Due to shareholder", "nan">>, <<"Notes payable", "10,000">> >>] >>

RECURSIVE BalanceTableLists(_)
BalanceTableLists(n) ==
    IF n = 0 THEN {<<>>}
    ELSE LET shorter == BalanceTableLists(n - 1)
         IN  shorter \cup {Append(l, BalanceTables[k]) :
                              l \in {x \in shorter : Len(x) = n - 1},
                              k \in 1..Len(BalanceTables)}

InitBalance ==
    /\ pc = "balance_date"
    /\ \E t \in BalanceTexts, tb \in BalanceTableLists(MaxTables), y \in ClockYears :
           InitCall("BalanceSheetExtractor.extract", t, "balance.pdf", tb, y)

\* balance_date.year if balance_date else the inferred year
YearOfDateOr(balance_date, inferred) ==
    IF balance_date # Null THEN Some(Val(balance_date).year) ELSE inferred

\* balance_date = self._extract_balance_date()
\* tax_year = balance_date.year if balance_date else self._infer_year()
BalanceDate ==
    /\ pc = "balance_date"
    /\ tax_year' = YearOfDateOr(ExtractBalanceDate(lower_text), InferYear(text, now))
    /\ pc' = "assets"
    /\ UNCHANGED <<inputVars, idx, scores, classification, text_amounts, amounts,
                   table_amounts, sectionVars, red_flags, extraction_notes, record>>

\* assets = self._extract_assets_section()
AssetsSection ==
    /\ pc = "assets"
    /\ assets' = ExtractAssetsSection(lower_text, tables)
    /\ red_flags' = red_flags \o AssetsRedFlags(assets')
    /\ pc' = "liabilities"
    /\ UNCHANGED <<inputVars, idx, scores, classification, text_amounts, amounts,
                   table_amounts, tax_year, liabilities, equity, virginiaVars, extraction_notes,
                   record>>

\* liabilities = self._extract_liabilities_section()
LiabilitiesSection ==
    /\ pc = "liabilities"
    /\ \E section \in {ExtractLiabilitiesSection(lower_text, tables)} :
           /\ liabilities' = section.liabilities
           /\ extraction_notes' = extraction_notes \o section.notes
    /\ pc' = "equity"
    /\ UNCHANGED <<inputVars, idx, scores, classification, text_amounts, amounts,
                   table_amounts, tax_year, assets, equity, virginiaVars, red_flags, record>>

\* equity = self._extract_equity_section()
EquitySection ==
    /\ pc = "equity"
    /\ equity' = ExtractEquitySection(lower_text, tables)
    /\ red_flags' = red_flags \o EquityRedFlags(equity')
    /\ extraction_notes' = extraction_notes \o EquityNotes(equity')
    /\ pc' = "result"
    /\ UNCHANGED <<inputVars, idx, scores, classification, text_amounts, amounts,
                   table_amounts, tax_year, assets, liabilities, virginiaVars, record>>

\* the ExtractionResult extract() builds from the year, the three sections,
\* the company name found in the text and the extractor's two lists
BalanceResult(year, a, l, e, flags, notes, t) ==
    [document_type |-> "balance_sheet",
     tax_year |-> year,
     entity_type |-> None,
     company_info |-> ExtractCompanyName(t),
     income_data |-> NoAmounts,
     expense_data |-> NoAmounts,
     balance_sheet_data |->
         [total_assets |-> GetOrZero(a, "total"),
          cash |-> GetOrZero(a, "cash"),
          accounts_receivable |-> GetOrZero(a, "accounts_receivable"),
          inventory |-> GetOrZero(a, "inventory"),
          fixed_assets |-> GetOrZero(a, "fixed_assets"),
          fixed_assets_gross |-> GetOrZero(a, "fixed_assets_gross"),
          accumulated_depreciation |-> GetOrZero(a, "accumulated_depreciation"),
          net_fixed_assets |-> GetOrZero(a, "net_fixed_assets"),
          other_assets |-> GetOrZero(a, "other_assets"),
          total_liabilities |-> GetOrZero(l, "total"),
          accounts_payable |-> GetOrZero(l, "accounts_payable"),
          current_liabilities |-> GetOrZero(l, "current"),
          long_term_debt |-> GetOrZero(l, "long_term"),
          total_equity |-> GetOrZero(e, "total"),
          retained_earnings |-> GetOrZero(e, "retained_earnings"),
          eidl_loan |-> GetOrZero(l, "eidl_loan"),
          ppp_loan |-> GetOrZero(l, "ppp_loan")],
     schedule_k_data |-> NoAmounts,
     owner_info |->
         [loans_to_shareholders |-> GetOrZero(a, "loans_to_shareholders"),
          loans_from_shareholders |-> GetOrZero(l, "loans_from_shareholders"),
          shareholder_distributions |-> GetOrZero(e, "distributions")],
     covid_adjustments |->
         [eidl_loan_balance |-> GetOrZero(l, "eidl_loan"),
          ppp_loan_balance |-> GetOrZero(l, "ppp_loan")],
     red_flags |-> flags,
     extraction_notes |-> notes,
     confidence_scores |-> [overall |-> Hundredths(85)]]

\* company_info = self._extract_company_name(); return ExtractionResult(...)
ReturnResult ==
    /\ pc = "result"
    /\ record' = Some(BalanceResult(tax_year, assets, liabilities, equity, red_flags,
                                    extraction_notes, text))
    /\ pc' = "done"
    /\ UNCHANGED <<inputVars, idx, scores, classification, text_amounts, amounts,
                   table_amounts, extractorVars>>

NextBalance ==
    BalanceDate \/ AssetsSection \/ LiabilitiesSection \/ EquitySection \/ ReturnResult

SpecBalance == InitBalance /\ [][NextBalance]_vars

\* ------------------------------------------------------------------------
\* One extractor object used for more than one call
\* ------------------------------------------------------------------------

\* extract() is called at most MaxCalls times on one object
MaxCalls == 2

\* what a caller passes to add_note and to add_red_flag
AddedNote == <<"Reviewed by hand", Zero>>
AddedFlag == <<"Needs a second look", Zero>>

\* the results returned so far, as their holders see them: red_flags and
\* extraction_notes of a result are the extractor's own two list objects
\* (red_flags=self.red_flags, extraction_notes=self.extraction_notes), so
\* they show what the lists hold now
Aliased(results, flags, notes) ==
    [r \in DOMAIN results |->
        [results[r] EXCEPT !.red_flags = flags, !.extraction_notes = notes]]

InitReuse ==
    /\ pc = "balance_date"
    /\ \E t \in BalanceTexts, tb \in BalanceTableLists(1), y \in {Least(ClockYears)} :
           InitCall("BalanceSheetExtractor.extract", t, "balance.pdf", tb, y)

\* a further extractor.extract() on the object, from its first line to its
\* return: the sections are parsed again and their flags and notes are
\* appended to the lists the constructor made
ExtractAgain ==
    /\ pc = "done"
    /\ Len(record) < MaxCalls
    /\ \E a \in {ExtractAssetsSection(lower_text, tables)},
          l \in {ExtractLiabilitiesSection(lower_text, tables)},
          e \in {ExtractEquitySection(lower_text, tables)} :
           /\ tax_year' = YearOfDateOr(ExtractBalanceDate(lower_text), InferYear(text, now))
           /\ assets' = a
           /\ liabilities' = l.liabilities
           /\ equity' = e
           /\ red_flags' = red_flags \o AssetsRedFlags(a) \o EquityRedFlags(e)
           /\ extraction_notes' = extraction_notes \o l.notes \o EquityNotes(e)
           /\ record' = Append(Aliased(record, red_flags', extraction_notes'),
                               BalanceResult(tax_year', a, l.liabilities, e, red_flags',
                                             extraction_notes', text))
    /\ UNCHANGED <<pc, inputVars, idx, scores, classification, text_amounts, amounts,
                   table_amounts, virginiaVars>>

\* extractor.add_note(note), called after a result was returned
AddNote ==
    /\ pc = "done"
    /\ \A i \in DOMAIN extraction_notes : extraction_notes[i] # AddedNote
    /\ extraction_notes' = Append(extraction_notes, AddedNote)
    /\ record' = Aliased(record, red_flags, extraction_notes')
    /\ UNCHANGED <<pc, inputVars, idx, scores, classification, text_amounts, amounts,
                   table_amounts, tax_year, sectionVars, red_flags>>

\* extractor.add_red_flag(flag), called after a result was returned
AddRedFlag ==
    /\ pc = "done"
    /\ \A i \in DOMAIN red_flags : red_flags[i] # AddedFlag
    /\ red_flags' = Append(red_flags, AddedFlag)
    /\ record' = Aliased(record, red_flags', extraction_notes)
    /\ UNCHANGED <<pc, inputVars, idx, scores, classification, text_amounts, amounts,
                   table_amounts, tax_year, sectionVars, extraction_notes>>

NextReuse == NextBalance \/ ExtractAgain \/ AddNote \/ AddRedFlag

SpecReuse == InitReuse /\ [][NextReuse]_vars

\* ------------------------------------------------------------------------
\* VirginiaForm500Extractor.extract, one step per section
\* ------------------------------------------------------------------------

\* the lines of a Virginia return before the apportionment
VirginiaHeaders == <<
    "2023 Virginia Form 500\nName of corporation: Acme Corp\nFEIN: 12-3456789\nFederal taxable income $90,000\nTotal additions 1,500\n",
    "Virginia Corporation Income Tax Return 2024 Form 500\nNAICS code 541211\nLine 1. ,\nTaxable income from federal return 75,000\nVirginia taxable income 80,000\nOther depreciation 4,000\n",
    "Blue Ridge Outfitters LLC\nFor taxable year 2014\nNet operating loss deduction 0\nTaxable income before NOL 10,000\nTotal subtractions 250\n" >>

\* the lines of Schedule 500A a return may have
ApportionmentLines == <<
    "",
    "Multi-factor percentage 62.5%\n",
    "Apportionment percentage: 0%\n",
    "Property factor 40%\nPayroll factor 0.00 %\nSales factor 55.25%\nMulti factor percentage 0.00 %\n",
    "Apportionment percentage .%\n",
    "Multi factor percentage 1.2.3%\nApportionment factor percentage 45%\n",
    "Apportionment percentage 100%\n",
    "Sales factor 150.25%\nVirginia share as a percentage of sales: 120%\n" >>

VirginiaTexts ==
    {VirginiaHeaders[h] \o ApportionmentLines[a] :
        h \in DOMAIN VirginiaHeaders, a \in DOMAIN ApportionmentLines}

InitVirginia ==
    /\ pc = "va_tax_year"
    /\ \E t \in VirginiaTexts, tb \in ListsOf(ParseTables, 1), y \in ClockYears :
           InitCall("VirginiaForm500Extractor.extract", t, "va500.pdf", tb, y)

\* what no step of VirginiaForm500Extractor.extract touches
virginiaRest ==
    <<inputVars, idx, scores, classification, text_amounts, amounts, table_amounts,
      assets, liabilities, equity, red_flags>>

\* tax_year = self._extract_tax_year()
VirginiaYear ==
    /\ pc = "va_tax_year"
    /\ tax_year' = VirginiaTaxYear(lower_text)
    /\ pc' = "va_company_info"
    /\ UNCHANGED <<virginiaRest, virginiaVars, extraction_notes, record>>

\* company_info = self._extract_company_info()
VirginiaCompany ==
    /\ pc = "va_company_info"
    /\ company_info' = Some(VirginiaCompanyInfo(text, lower_text))
    /\ pc' = "va_income_data"
    /\ UNCHANGED <<virginiaRest, tax_year, income_data, schedule_500fed, apportionment,
                   extraction_notes, record>>

\* income_data = self._extract_income_data()
VirginiaIncome ==
    /\ pc = "va_income_data"
    /\ income_data' = ExtractIncomeData(lower_text)
    /\ pc' = "va_schedule_500fed"
    /\ UNCHANGED <<virginiaRest, tax_year, company_info, schedule_500fed, apportionment,
                   extraction_notes, record>>

\* schedule_500fed = self._extract_schedule_500fed()
VirginiaSchedule500Fed ==
    /\ pc = "va_schedule_500fed"
    /\ schedule_500fed' = Schedule500FedData(lower_text)
    /\ extraction_notes' = extraction_notes \o Schedule500FedNotes(schedule_500fed')
    /\ pc' = "va_apportionment"
    /\ UNCHANGED <<virginiaRest, tax_year, company_info, income_data, apportionment, record>>

\* apportionment = self._extract_apportionment()
VirginiaApportionment ==
    /\ pc = "va_apportionment"
    /\ apportionment' = ExtractApportionment(lower_text)
    /\ pc' = "va_result"
    /\ UNCHANGED <<virginiaRest, tax_year, company_info, income_data, schedule_500fed,
                   extraction_notes, record>>

\* the note on the apportionment, then return ExtractionResult(...)
VirginiaReturn ==
    /\ pc = "va_result"
    /\ extraction_notes' = extraction_notes \o ApportionmentNotes(apportionment)
    /\ record' = Some(VirginiaResult(tax_year, Val(company_info), income_data, schedule_500fed,
                                     apportionment, red_flags, extraction_notes'))
    /\ pc' = "done"
    /\ UNCHANGED <<virginiaRest, tax_year, virginiaVars>>

NextVirginia ==
    \/ VirginiaYear
    \/ VirginiaCompany
    \/ VirginiaIncome
    \/ VirginiaSchedule500Fed
    \/ VirginiaApportionment
    \/ VirginiaReturn

SpecVirginia == InitVirginia /\ [][NextVirginia]_vars

\* ------------------------------------------------------------------------
\* BaseExtractor._parse_amount and BaseExtractor.extract_amount on their own
\* ------------------------------------------------------------------------

\* str(n) of a natural number
RECURSIVE DigitString(_)
DigitString(n) ==
    IF n < 10 THEN SubSeq("0123456789", n + 1, n + 1)
    ELSE DigitString(n \div 10) \o SubSeq("0123456789", (n % 10) + 1, (n % 10) + 1)

\* the three digits of n < 1000
ThreeDigits(n) == SubSeq("00" \o DigitString(n), Len(DigitString(n)), Len(DigitString(n)) + 2)

\* n written with thousands separators
RECURSIVE Grouped(_)
Grouped(n) ==
    IF n < 1000 THEN DigitString(n) ELSE Grouped(n \div 1000) \o "," \o ThreeDigits(n % 1000)

\* the whole numbers the strings are written from
PlainNumbers == {0, 7, 999, 1000, 5000, 40250, 1234567}

\* the amount n written with or without the currency symbol and the
\* thousands separators
Symbols(n) == {DigitString(n), Grouped(n), "$" \o DigitString(n), "$" \o Grouped(n)}

\* the ways a document writes the amount n
Decorations(n) == Symbols(n) \cup {"$ " \o Grouped(n), " " \o Grouped(n) \o " "}

\* the ways a document writes the amount n as a negative amount
Parenthesized(n) ==
    {"(" \o d \o ")" : d \in Symbols(n)} \cup {"$(" \o Grouped(n) \o ")"}

\* strings that are no amount, or an amount with blanks inside the parentheses
OtherStrings ==
    {"", "-", "$", "n/a", "(", "()", "1,2a", "12.5.1", "(5,000", "($ 5,000)", "( 5,000 )"}

NumberStrings ==
    UNION {Decorations(n) \cup Parenthesized(n) : n \in PlainNumbers} \cup OtherStrings

\* a pattern whose group is the whole line, for extract_amount
line_patterns == <<Grp(Plus(Dot))>>

InitNumbers ==
    /\ pc = "convert"
    /\ \E c \in {"_parse_amount", "extract_amount"}, s \in NumberStrings, y \in ClockYears :
           InitCall(c, s, "", <<>>, y)

\* self._parse_amount(value_str), the string being held in text
ParseAmountCall ==
    /\ pc = "convert"
    /\ call = "_parse_amount"
    /\ record' = Some(ParseAmount(text))
    /\ pc' = "done"
    /\ UNCHANGED <<inputVars, idx, scores, classification, text_amounts, amounts,
                   table_amounts, extractorVars>>

\* self.extract_amount(patterns) on a text that is the string
ExtractAmountCall ==
    /\ pc = "convert"
    /\ call = "extract_amount"
    /\ record' = Some(ExtractAmount(line_patterns, lower_text, Zero))
    /\ pc' = "done"
    /\ UNCHANGED <<inputVars, idx, scores, classification, text_amounts, amounts,
                   table_amounts, extractorVars>>

NextNumbers == ParseAmountCall \/ ExtractAmountCall

SpecNumbers == InitNumbers /\ [][NextNumbers]_vars

\* ------------------------------------------------------------------------
\* The extract_pdf endpoints: JSON values, base64 and the responses
\* ------------------------------------------------------------------------

\* the JSON values of a request body, each held by its type and its JSON text
JsonStr(s) == [type |-> "str", value |-> s]
JsonInt(n) == [type |-> "int", value |-> DigitString(n)]
JsonNull == [type |-> "null", value |-> "null"]

\* bool(v) of a JSON value
JsonTruthy(v) ==
    CASE v.type = "str" -> v.value # ""
      [] v.type = "int" -> v.value # "0"
      [] OTHER -> FALSE

\* type(v).__name__
TypeName(v) ==
    CASE v.type = "str" -> "str"
      [] v.type = "int" -> "int"
      [] OTHER -> "NoneType"

\* request.get(key, default)
RequestGet(req, key, default) == IF key \in DOMAIN req THEN req[key] ELSE default

\* v or default
OrDefault(v, default) == IF JsonTruthy(v) THEN v ELSE default

\* the two shapes of a response
ErrorResponse(code, message) ==
    [success |-> FALSE, error |-> [code |-> code, message |-> message]]

SuccessResponse(data) == [success |-> TRUE, data |-> data]

Base64Alphabet == "ABCDEFGHIJKLMNOPQRSTUVWXYZabcdefghijklmnopqrstuvwxyz0123456789+/"

\* the six bits a character of the alphabet stands for
Base64Value(c) == (CHOOSE k \in 1..Len(Base64Alphabet) : SubSeq(Base64Alphabet, k, k) = c) - 1

\* binascii.a2b_base64 before the first character
Base64Start == [quad_pos |-> 0, leftchar |-> 0, pads |-> 0, bin_data |-> <<>>, done |-> FALSE]

\* a character of the alphabet: the switch on quad_pos
Base64Data(st, this_ch) ==
    CASE st.quad_pos = 0 ->
             [st EXCEPT !.pads = 0, !.quad_pos = 1, !.leftchar = this_ch]
      [] st.quad_pos = 1 ->
             [st EXCEPT !.pads = 0, !.quad_pos = 2,
                        !.bin_data = Append(@, st.leftchar * 4 + this_ch \div 16),
                        !.leftchar = this_ch % 16]
      [] st.quad_pos = 2 ->
             [st EXCEPT !.pads = 0, !.quad_pos = 3,
                        !.bin_data = Append(@, st.leftchar * 16 + this_ch \div 4),
                        !.leftchar = this_ch % 4]
      [] OTHER ->
             [st EXCEPT !.pads = 0, !.quad_pos = 0,
                        !.bin_data = Append(@, st.leftchar * 64 + this_ch),
                        !.leftchar = 0]

\* one character of the input: a pad that completes a quad ends the decoding,
\* any other pad and any character outside the alphabet is skipped
Base64Char(st, c) ==
    IF st.done THEN st
    ELSE IF c = "="
         THEN IF st.quad_pos >= 2
              THEN [st EXCEPT !.pads = @ + 1, !.done = (st.quad_pos + st.pads + 1 >= 4)]
              ELSE st
    ELSE IF c \in Chars(Base64Alphabet) THEN Base64Data(st, Base64Value(c))
    ELSE st

RECURSIVE Base64From(_, _, _)
Base64From(st, s, k) ==
    IF k > Len(s) THEN st ELSE Base64From(Base64Char(st, s[k]), s, k + 1)

\* the end of binascii.a2b_base64: the bytes, or binascii.Error
Base64Result(st) ==
    IF st.done \/ st.quad_pos = 0
    THEN [raised |-> FALSE, message |-> "", bytes |-> st.bin_data]
    ELSE IF st.quad_pos = 1
         THEN [raised |-> TRUE,
               message |-> "Invalid base64-encoded string: number of data characters ("
                           \o DigitString((Len(st.bin_data) \div 3) * 4 + 1)
                           \o ") cannot be 1 more than a multiple of 4",
               bytes |-> <<>>]
    ELSE [raised |-> TRUE, message |-> "Incorrect padding", bytes |-> <<>>]

\* base64.b64decode(v): TypeError for a value that is no string
B64Decode(v) ==
    IF v.type # "str"
    THEN [raised |-> TRUE,
          message |-> "argument should be a bytes-like object or ASCII string, not '"
                      \o TypeName(v) \o "'",
          bytes |-> <<>>]
    ELSE Base64Result(Base64From(Base64Start, [k \in 1..Len(v.value) |-> SubSeq(v.value, k, k)], 1))

\* ------------------------------------------------------------------------
\* src/modal extract_pdf: text, OCR and tables
\* ------------------------------------------------------------------------

\* the sum of a sequence of numbers
RECURSIVE SumFrom(_, _)
SumFrom(numbers, k) == IF k > Len(numbers) THEN 0 ELSE numbers[k] + SumFrom(numbers, k + 1)

\* the concatenation of a sequence of sequences (or of strings)
RECURSIVE ConcatFrom(_, _, _)
ConcatFrom(parts, empty, k) ==
    IF k > Len(parts) THEN empty ELSE parts[k] \o ConcatFrom(parts, empty, k + 1)

\* separator.join(parts)
RECURSIVE JoinWith(_, _, _)
JoinWith(separator, parts, k) ==
    IF k > Len(parts) THEN ""
    ELSE IF k = Len(parts) THEN parts[k]
    ELSE parts[k] \o separator \o JoinWith(separator, parts, k + 1)

\* the elements of a sequence at the positions of kept, in order
RECURSIVE Picked(_, _, _)
Picked(values, kept, k) ==
    IF k > Len(values) THEN <<>>
    ELSE (IF k \in kept THEN <<values[k]>> ELSE <<>>) \o Picked(values, kept, k + 1)

\* full_text after the loop over the pages: each page's text and a newline
FullText(pages) == ConcatFrom([k \in DOMAIN pages |-> pages[k] \o "\n"], "", 1)

\* total_chars after the loop over the pages
TotalChars(pages) == SumFrom([k \in DOMAIN pages |-> Len(Strip(pages[k]))], 1)

\* avg_chars_per_page < 100, with avg_chars_per_page = total_chars / max(pages, 1)
ScannedThreshold == 100
IsScanned(total_chars, page_count) ==
    total_chars < ScannedThreshold * (IF page_count > 1 THEN page_count ELSE 1)

\* the words of one image that count: conf > 0 and word.strip()
KeptWords(ocr_data) ==
    {k \in 1..(IF Len(ocr_data.text) < Len(ocr_data.conf)
               THEN Len(ocr_data.text) ELSE Len(ocr_data.conf)) :
        ocr_data.conf[k] > 0 /\ Strip(ocr_data.text[k]) # ""}

\* page_text of one image
OcrPageText(ocr_data) == JoinWith(" ", Picked(ocr_data.text, KeptWords(ocr_data), 1), 1)

\* page_confs of one image
PageConfs(ocr_data) ==
    Picked(ocr_data.conf, {k \in DOMAIN ocr_data.conf : ocr_data.conf[k] > 0}, 1)

\* text_by_page after the OCR loop: the OCR text replaces the pages it covers
OcrTextByPage(text_by_page, ocr_pages) ==
    [k \in 1..(IF Len(ocr_pages) > Len(text_by_page) THEN Len(ocr_pages) ELSE Len(text_by_page)) |->
        IF k <= Len(ocr_pages) THEN ocr_pages[k] ELSE text_by_page[k]]

\* sum(ocr_confidences) / len(ocr_confidences) if ocr_confidences else 0, in
\* units of 1/AmountScale
OcrConfidence(confs) ==
    IF Len(confs) = 0 THEN Zero ELSE Num((SumFrom(confs, 1) * AmountScale) \div Len(confs))

\* total_chars < 500 or (ocr_confidence and ocr_confidence < 60)
MinOcrChars == 500
MinOcrConfidence == 60

\* mutant: the confidence is not looked at
PoorOcrByLength(total_chars, confs) == total_chars < MinOcrChars

PoorOcr(total_chars, confs) ==
    \/ total_chars < MinOcrChars
    \/ /\ Len(confs) > 0
       /\ SumFrom(confs, 1) < MinOcrConfidence * Len(confs)

\* f"{x:.0f}" of the quotient of two whole numbers: to the nearest whole
\* number, a half to the even one
RoundedQuotient(n, d) ==
    LET q == n \div d
        r == n % d
    IN  IF 2 * r < d THEN q
        ELSE IF 2 * r > d THEN q + 1
        ELSE IF q % 2 = 0 THEN q ELSE q + 1

\* the message of the SCANNED_PDF response after a poor OCR
PoorOcrMessage(confs) ==
    "Document is scanned with low OCR quality ("
    \o DigitString(IF Len(confs) = 0 THEN 0 ELSE RoundedQuotient(SumFrom(confs, 1), Len(confs)))
    \o "% confidence). Premium extraction recommended."

\* what the OCR loop leaves: the text, the pages and the confidences
OcrOf(images) ==
    [ocr_text |-> FullText([k \in DOMAIN images |-> OcrPageText(images[k])]),
     pages |-> [k \in DOMAIN images |-> OcrPageText(images[k])],
     confs |-> ConcatFrom([k \in DOMAIN images |-> PageConfs(images[k])], <<>>, 1)]

\* `cell` as a condition: a cell that is neither None nor empty
Filled(cell) == cell # None /\ cell # ""

\* any(c.isdigit() for c in str(cell))
HasDigit(cell) == \E k \in 1..Len(cell) : SubSeq(cell, k, k) \in Digit

\* the first row looks like headers: no filled cell of it holds a digit
LooksLikeHeaders(table) ==
    /\ Len(table) > 1
    /\ Len(table[1]) > 0
    /\ \A k \in DOMAIN table[1] : Filled(table[1][k]) => ~HasDigit(table[1][k])

\* [str(cell) if cell else "" for cell in row]
CellTexts(row) == [k \in DOMAIN row |-> IF Filled(row[k]) THEN row[k] ELSE ""]

\* the entry appended for one table of a page
ModalTable(table, page_num, table_idx) ==
    [page_number |-> page_num,
     table_index |-> table_idx,
     headers |-> IF LooksLikeHeaders(table) THEN Some(CellTexts(table[1])) ELSE Null,
     rows |-> LET rows == IF LooksLikeHeaders(table) THEN Tail(table) ELSE table
              IN  [k \in DOMAIN rows |-> CellTexts(rows[k])],
     row_count |-> IF LooksLikeHeaders(table) THEN Len(table) - 1 ELSE Len(table),
     column_count |-> IF Len(table) > 0 THEN Len(table[1]) ELSE 0]

\* the entries of one page: one per table that is not empty
PageTables(page_tables, page_num) ==
    LET kept == {k \in DOMAIN page_tables : Len(page_tables[k]) > 0}
    IN  Picked([k \in DOMAIN page_tables |-> ModalTable(page_tables[k], page_num, k - 1)], kept, 1)

\* tables after the loop over the pages pdfplumber read
ModalTables(pages) == ConcatFrom([k \in DOMAIN pages |-> PageTables(pages[k], k)], <<>>, 1)

\* sequence[:limit]
UpTo(sequence, limit) ==
    IF Len(sequence) <= limit THEN sequence ELSE SubSeq(sequence, 1, limit)

RawTextLimit == 50000
TablesLimit == 20

\* response_data
ResponseData(document_id, file_name, clock, full_text, found_tables, meta, parsed_data) ==
    [document_id |-> document_id,
     filename |-> file_name,
     extraction_timestamp |-> clock,
     raw_text |-> UpTo(full_text, RawTextLimit),
     text_by_region |->
         [page_1 |-> [header |-> "", body_left |-> "", body_right |-> "", footer |-> "",
                      full_text |-> UpTo(full_text, RawTextLimit)]],
     tables |-> UpTo(found_tables, TablesLimit),
     metadata |->
         [page_count |-> Len(meta.text_by_page),
          is_scanned |-> meta.is_scanned,
          ocr_confidence |-> meta.ocr_confidence,
          extraction_method |-> IF meta.extraction_method = "pymupdf" THEN "pdfplumber" ELSE "ocr",
          processing_time_ms |-> 0],
     parsed_data |-> parsed_data]

\* str(e) of the exception the outer except clause caught
CaughtMessage(state) ==
    IF "error" \in DOMAIN state THEN state.error
    ELSE IF state.filename.type # "str"
         THEN "'" \o TypeName(state.filename) \o "' object has no attribute 'lower'"
    ELSE "cannot convert float infinity to integer"

\* ------------------------------------------------------------------------
\* src/lib/extraction/modal extract_pdf: extract_with_pdfplumber
\* ------------------------------------------------------------------------

\* check_if_scanned: the pages read before the end or before an exception
PagesToCheck == 3
CheckedPages(page_texts) == UpTo(page_texts, PagesToCheck)

\* min(1.0, avg_text_per_page / 500), in units of 1/AmountScale
ConfidenceChars == 500
TextConfidence(total, pages_checked) ==
    IF pages_checked = 0 THEN Zero
    ELSE IF total >= ConfidenceChars * pages_checked THEN Num(AmountScale)
    ELSE Num((total * AmountScale) \div (ConfidenceChars * pages_checked))

\* is_scanned of check_if_scanned
LibIsScanned(total, pages_checked) ==
    pages_checked = 0 \/ total < ScannedThreshold * pages_checked

\* c.replace(",", "")...replace(")", "").isdigit()
PureNumber(c) ==
    LET bare == ReplaceChars(c, {",", ".", "-", "$", "(", ")"}, [x \in {} |-> ""])
    IN  bare # "" /\ \A k \in 1..Len(bare) : SubSeq(bare, k, k) \in Digit

\* str(c).strip() if c else ""
StrippedCells(row) == [k \in DOMAIN row |-> IF Filled(row[k]) THEN Strip(row[k]) ELSE ""]

\* the first row is taken as headers: it has a filled cell and fewer than
\* half of its non-empty cells are pure numbers
LibHeaders(table) ==
    LET non_empty == {k \in DOMAIN table[1] : StrippedCells(table[1])[k] # ""}
    IN  /\ \E k \in DOMAIN table[1] : Filled(table[1][k])
        /\ non_empty # {}
        /\ 2 * Cardinality({k \in non_empty : PureNumber(StrippedCells(table[1])[k])})
               < Cardinality(non_empty)

\* cleaned_rows: the stripped rows that are not completely empty
CleanedRows(data_rows) ==
    Picked([k \in DOMAIN data_rows |-> StrippedCells(data_rows[k])],
           {k \in DOMAIN data_rows : \E j \in DOMAIN data_rows[k] :
                                        StrippedCells(data_rows[k])[j] # ""}, 1)

\* the entry for one table, for a table of at least 2 rows
LibTable(table, page_num, table_idx) ==
    [page_number |-> page_num,
     table_index |-> table_idx,
     headers |-> IF LibHeaders(table) THEN Some(StrippedCells(table[1])) ELSE Null,
     rows |-> CleanedRows(IF LibHeaders(table) THEN Tail(table) ELSE table),
     row_count |-> Len(CleanedRows(IF LibHeaders(table) THEN Tail(table) ELSE table)),
     column_count |-> IF Len(table) > 0 THEN Len(table[1]) ELSE 0]

\* extract_tables_from_page: tables of fewer than 2 rows and tables without
\* a cleaned row are skipped
ExtractTablesFromPage(page_tables, page_num) ==
    LET kept == {k \in DOMAIN page_tables :
                    /\ Len(page_tables[k]) >= 2
                    /\ Len(CleanedRows(IF LibHeaders(page_tables[k])
                                       THEN Tail(page_tables[k]) ELSE page_tables[k])) > 0}
    IN  Picked([k \in DOMAIN page_tables |->
                   IF k \in kept THEN LibTable(page_tables[k], page_num, k - 1) ELSE Null],
               kept, 1)

\* the categories of an exception of the extraction, by its message
ErrorCode(error_msg) ==
    IF Contains(Lower(error_msg), "password") \/ Contains(Lower(error_msg), "encrypted")
    THEN "ENCRYPTED_PDF"
    ELSE IF Contains(Lower(error_msg), "invalid") \/ Contains(Lower(error_msg), "corrupt")
         THEN "CORRUPTED_PDF"
    ELSE "UNKNOWN_ERROR"

ErrorMessage(error_msg) ==
    CASE ErrorCode(error_msg) = "ENCRYPTED_PDF" -> "PDF is password protected"
      [] ErrorCode(error_msg) = "CORRUPTED_PDF" -> "PDF file is corrupted or invalid"
      [] OTHER -> error_msg

\* the data of a successful extract_with_pdfplumber
LibData(found_tables, text_by_region, raw_text, page_count, method, ms, scanned, confidence) ==
    [tables |-> found_tables,
     text_by_region |-> text_by_region,
     raw_text |-> raw_text,
     metadata |->
         [page_count |-> page_count,
          extraction_method |-> method,
          processing_time_ms |-> ms,
          is_scanned |-> scanned,
          ocr_confidence |-> IF scanned THEN Some(confidence) ELSE Null]]

\* extract_with_pdfplumber on a file the libraries read as pdf: the response
\* before the endpoint adds the document's identification. text_by_region
\* holds the entry of page_k at position k; an OCR that failed leaves no text
ExtractWithPdfplumber(pdf, ms) ==
    LET checked == CheckedPages(pdf.checked)
        scanned == LibIsScanned(TotalChars(checked), Len(checked))
    IN  IF pdf.open_error # ""
        THEN ErrorResponse(ErrorCode(pdf.open_error), ErrorMessage(pdf.open_error))
        ELSE IF scanned
        THEN SuccessResponse(LibData(
                 <<>>,
                 IF pdf.ocr = Null THEN <<>> ELSE Val(pdf.ocr),
                 IF pdf.ocr = Null THEN ""
                 ELSE JoinWith("\n\n", [k \in DOMAIN Val(pdf.ocr) |-> Val(pdf.ocr)[k].full_text], 1),
                 Len(pdf.pages), "ocr", ms, TRUE,
                 TextConfidence(TotalChars(checked), Len(checked))))
        ELSE SuccessResponse(LibData(
                 ConcatFrom([k \in DOMAIN pdf.pages |->
                                ExtractTablesFromPage(pdf.pages[k].tables, k)], <<>>, 1),
                 [k \in DOMAIN pdf.pages |-> pdf.pages[k].regions],
                 JoinWith("\n\n", [k \in DOMAIN pdf.pages |-> pdf.pages[k].regions.full_text], 1),
                 Len(pdf.pages), "pdfplumber", ms, FALSE, Zero))

\* the endpoint's additions to a successful result
WithIdentification(result, document_id, file_name, clock) ==
    IF result.success
    THEN [result EXCEPT !.data =
             [document_id |-> OrDefault(document_id, JsonStr("unknown")),
              filename |-> OrDefault(file_name, JsonStr("unknown.pdf")),
              extraction_timestamp |-> clock] @@ @]
    ELSE result

\* ------------------------------------------------------------------------
\* The extract_pdf endpoints, one step per library call
\* ------------------------------------------------------------------------

\* the request bodies the endpoints are called with
Requests == {
    NoRequest,
    [pdf_base64 |-> JsonStr("")],
    [pdf_base64 |-> JsonNull, filename |-> JsonStr("scan.pdf")],
    [pdf_base64 |-> JsonInt(0)],
    [pdf_base64 |-> JsonInt(42)],
    [pdf_base64 |-> JsonStr("JVBERg"), document_id |-> JsonStr("doc-1")],
    [pdf_base64 |-> JsonStr("A===")],
    [pdf_base64 |-> JsonStr("JVBERi0x"), document_id |-> JsonStr("doc-1"),
     filename |-> JsonStr("2023_1120S_Balance.pdf")],
    [pdf_base64 |-> JsonStr("JVBE Rg==JV"), document_id |-> JsonInt(7), filename |-> JsonNull],
    [pdf_base64 |-> JsonStr("!!!!"), document_id |-> JsonStr(""), filename |-> JsonStr("")] }

\* pages with at least ScannedThreshold characters of text
ReturnPage ==
    "Form 1120-S for calendar year 2022\nName of corporation: Acme Widgets Inc\nGross receipts or sales 1,250,000\nCompensation of officers 75,000\n"

BalancePage ==
    "Acme Widgets LLC\nBalance Sheet\nAs of December 31, 2023\nTotal Assets 500,000\nTotal Liabilities 200,000\nRetained earnings 40,000\n"

\* a page with a number that is too large for a float
LongNumberPage == "Gross receipts " \o LongNumber \o "\n"

\* what fitz makes of the bytes: it fails to open them, finds them encrypted,
\* fails to read a page, or reads the text of every page
FitzOutcomes == {
    [opens |-> "raises", message |-> "Failed to open stream", pages |-> <<>>],
    [opens |-> "encrypted", message |-> "", pages |-> <<>>],
    [opens |-> "unreadable", message |-> "page not found", pages |-> <<>>],
    [opens |-> "opened", message |-> "", pages |-> <<>>],
    [opens |-> "opened", message |-> "", pages |-> <<"  \n">>],
    [opens |-> "opened", message |-> "", pages |-> <<ReturnPage>>],
    [opens |-> "opened", message |-> "", pages |-> <<BalancePage, "">>],
    [opens |-> "opened", message |-> "", pages |-> <<"", "", "Scanned by ACME">>],
    [opens |-> "opened", message |-> "", pages |-> <<ReturnPage, BalancePage>>],
    [opens |-> "opened", message |-> "", pages |-> <<LongNumberPage>>] }

\* the words pytesseract reads from an image of a tax return and of a
\* balance sheet; the first one is noise that has no confidence
ReturnWords ==
    <<" ", "Form", "1120-S", "for", "calendar", "year", "2022", "Gross", "receipts", "or",
      "sales", "1,250,000", "Compensation", "of", "officers", "75,000", "Ordinary",
      "business", "income", "40,000">>

BalanceWords ==
    <<"", "Balance", "Sheet", "As", "of", "December", "31,", "2023", "Total", "Assets",
      "500,000", "Total", "Liabilities", "200,000", "Retained", "earnings", "40,000">>

\* the OCR data of an image whose words all have the confidence conf, the
\* first word excepted
OcrData(words, conf) ==
    [text |-> words, conf |-> [k \in DOMAIN words |-> IF k = 1 THEN 0 - 1 ELSE conf]]

\* the number of images of a long document
LongDocument == 5

\* what pdf2image and pytesseract make of the bytes: an exception, or the
\* words and confidences of every image
OcrOutcomes == {
    [raises |-> TRUE, images |-> <<>>],
    [raises |-> FALSE, images |-> <<>>],
    [raises |-> FALSE, images |-> [k \in 1..LongDocument |-> OcrData(ReturnWords, 92)]],
    [raises |-> FALSE, images |-> [k \in 1..LongDocument |-> OcrData(ReturnWords, 59)]],
    [raises |-> FALSE,
     images |-> [k \in 1..(LongDocument + 1) |->
                    IF k = 1 THEN [text |-> <<"Total", "assets", "510,000">>, conf |-> <<52, 0, 68>>]
                    ELSE OcrData(BalanceWords, 60)]],
    [raises |-> FALSE,
     images |-> <<[text |-> <<"Balance", "Sheet", "2023">>, conf |-> <<95, 96, 0>>]>>] }

\* a table of one row without a known label
MemoTable == << <<"Memo">> >>

\* what pdfplumber makes of the bytes: per page it read, the tables of the
\* page. An exception ends the reading and keeps the tables found before it
PlumberOutcomes == {
    <<>>,
    << << << <<"Item", None, "Amount">>, <<"Gross receipts", "", "1,300,000">>,
             <<"Cash", None, None>> >> >> >>,
    << <<>>, << <<>>, << <<"Total Assets", "510,000">>, <<"Cash", "inf">> >> >> >>,
    << << << <<None, "">>, <<"2023", "Total liabilities", "210,000">> >>,
          << <<"Retained earnings", "(2,500)">> >> >> >>,
    << [k \in 1..(TablesLimit + 1) |-> MemoTable] >> }

\* the time the extraction took, in milliseconds
ElapsedMs == {0, 1250}

\* what the libraries of extract_with_pdfplumber make of the bytes: the
\* page texts check_if_scanned read, the regions ocr_pdf read (Null when it
\* failed), the message of the exception of pdfplumber.open ("" when it
\* opens the file), and the tables and regions of the pages
Regions(full_text) ==
    [header |-> "", body_left |-> full_text, body_right |-> "", footer |-> "",
     full_text |-> full_text]

LibPdfs ==
    {[checked |-> <<>>, ocr |-> Null, open_error |-> m, pages |-> <<>>] :
        m \in {"File has not been decrypted", "Incorrect password", "PDF is Encrypted",
               "Invalid PDF header", "xref table corrupted", "No /Root object!"}}
    \cup {
    [checked |-> <<>>, ocr |-> Null, open_error |-> "", pages |-> <<>>],
    [checked |-> <<"Scanned by ACME Corp", "">>, ocr |-> Null, open_error |-> "",
     pages |-> <<[tables |-> <<>>, regions |-> Regions("Scanned by ACME Corp")],
                 [tables |-> <<>>, regions |-> Regions("")]>>],
    [checked |-> <<"Scanned by ACME  ">>,
     ocr |-> Some(<<Regions("Balance Sheet"), Regions("Total assets 510,000")>>),
     open_error |-> "",
     pages |-> <<[tables |-> <<>>, regions |-> Regions("")],
                 [tables |-> <<>>, regions |-> Regions("")]>>],
    [checked |-> <<ReturnPage>>, ocr |-> Null, open_error |-> "",
     pages |-> <<[tables |-> << << <<" Item ", None>>, <<"Cash", " 2,500 ">>,
                                   <<None, " ">> >>,
                                << <<"Memo", "12">> >>,
                                << <<"1,200", "(300)", "Total">>, <<"7", "8", "9">> >> >>,
                  regions |-> Regions(ReturnPage)]>>],
    [checked |-> <<ReturnPage, BalancePage, ReturnPage>>, ocr |-> Null, open_error |-> "",
     pages |-> <<[tables |-> <<>>, regions |-> Regions(ReturnPage)],
                 [tables |-> << << <<" ", None>>, <<"", None>> >> >>,
                  regions |-> Regions(BalancePage)],
                 [tables |-> <<>>, regions |-> Regions(ReturnPage)],
                 [tables |-> <<>>, regions |-> Regions("")]>>] }

InitEndpoint ==
    /\ pc = "validate"
    /\ \E c \in Endpoints, req \in Requests, y \in ClockYears :
           InitState(c, "", "", <<>>, y, req)

\* the state of the parser, which the handler's own steps leave alone
parserVars == <<idx, scores, classification, text_amounts, amounts, table_amounts,
                extractorVars>>

\* mutant: the test is `pdf_base64 is None`, which an empty string passes
MissingIsNone(pdf_base64) == pdf_base64 = JsonNull

\* not pdf_base64
Missing(pdf_base64) == ~JsonTruthy(pdf_base64)

\* src/modal: pdf_base64 = request.get("pdf_base64"); if not pdf_base64:
\* MISSING_PDF; document_id and filename with their defaults
Validate ==
    /\ pc = "validate"
    /\ call = "extract_pdf"
    /\ IF Missing(RequestGet(request, "pdf_base64", JsonNull))
       THEN /\ record' = Some(ErrorResponse("MISSING_PDF", "pdf_base64 is required"))
            /\ pc' = "done"
            /\ locals' = [pdf_base64 |-> RequestGet(request, "pdf_base64", JsonNull)]
       ELSE /\ locals' = [pdf_base64 |-> RequestGet(request, "pdf_base64", JsonNull),
                          document_id |-> RequestGet(request, "document_id", JsonStr("unknown")),
                          filename |-> RequestGet(request, "filename", JsonStr("document.pdf"))]
            /\ pc' = "decode"
            /\ UNCHANGED record
    /\ UNCHANGED <<call, text, lower_text, filename, tables, now, request, calls, parserVars>>

\* src/lib: the three keys with the default "", then if not pdf_base64:
\* MISSING_INPUT
LibValidate ==
    /\ pc = "validate"
    /\ call = "lib.extract_pdf"
    /\ locals' = [pdf_base64 |-> RequestGet(request, "pdf_base64", JsonStr("")),
                  document_id |-> RequestGet(request, "document_id", JsonStr("")),
                  filename |-> RequestGet(request, "filename", JsonStr(""))]
    /\ IF Missing(RequestGet(request, "pdf_base64", JsonStr("")))
       THEN /\ record' = Some(ErrorResponse("MISSING_INPUT", "pdf_base64 is required"))
            /\ pc' = "done"
       ELSE /\ pc' = "decode"
            /\ UNCHANGED record
    /\ UNCHANGED <<call, text, lower_text, filename, tables, now, request, calls, parserVars>>

\* both endpoints: pdf_bytes = base64.b64decode(pdf_base64), an exception
\* answered by INVALID_BASE64
Decode ==
    /\ pc = "decode"
    /\ calls' = Append(calls, "base64.b64decode")
    /\ \E decoded \in {B64Decode(locals.pdf_base64)} :
           IF decoded.raised
           THEN /\ record' = Some(ErrorResponse("INVALID_BASE64",
                                      "Failed to decode base64: " \o decoded.message))
                /\ pc' = "done"
                /\ UNCHANGED locals
           ELSE /\ locals' = [pdf_bytes |-> decoded.bytes] @@ locals
                /\ pc' = IF call = "extract_pdf" THEN "open" ELSE "extract"
                /\ UNCHANGED record
    /\ UNCHANGED <<call, text, lower_text, filename, tables, now, request, parserVars>>

\* fitz.open and the loop over the pages; an exception of the loop goes to
\* the outer except clause
OpenPdf ==
    /\ pc = "open"
    /\ calls' = Append(calls, "fitz.open")
    /\ \E doc \in FitzOutcomes :
           CASE doc.opens = "raises" ->
                    /\ record' = Some(ErrorResponse("CORRUPTED_PDF",
                                          "Failed to open PDF: " \o doc.message))
                    /\ pc' = "done"
                    /\ UNCHANGED locals
             [] doc.opens = "encrypted" ->
                    /\ record' = Some(ErrorResponse("ENCRYPTED_PDF", "PDF is password protected"))
                    /\ pc' = "done"
                    /\ UNCHANGED locals
             [] doc.opens = "unreadable" ->
                    /\ locals' = [error |-> doc.message] @@ locals
                    /\ pc' = "caught"
                    /\ UNCHANGED record
             [] OTHER ->
                    /\ locals' = [full_text |-> FullText(doc.pages),
                                  text_by_page |-> doc.pages,
                                  total_chars |-> TotalChars(doc.pages),
                                  is_scanned |-> IsScanned(TotalChars(doc.pages), Len(doc.pages)),
                                  ocr_confidence |-> Null,
                                  extraction_method |-> "pymupdf"] @@ locals
                    /\ pc' = IF IsScanned(TotalChars(doc.pages), Len(doc.pages))
                             THEN "ocr" ELSE "tables"
                    /\ UNCHANGED record
    /\ UNCHANGED <<call, text, lower_text, filename, tables, now, request, parserVars>>

\* if is_scanned: the OCR of every image; SCANNED_PDF when it fails or is poor
Ocr ==
    /\ pc = "ocr"
    /\ calls' = Append(calls, "convert_from_bytes")
    /\ \E outcome \in OcrOutcomes :
           IF outcome.raises
           THEN /\ record' = Some(ErrorResponse("SCANNED_PDF",
                       "Document is scanned and OCR failed. Premium extraction recommended."))
                /\ pc' = "done"
                /\ UNCHANGED locals
           ELSE \E ocr \in {OcrOf(outcome.images)} :
                    /\ locals' = [full_text |-> ocr.ocr_text,
                                  text_by_page |-> OcrTextByPage(locals.text_by_page, ocr.pages),
                                  total_chars |-> Len(Strip(ocr.ocr_text)),
                                  ocr_confidence |-> Some(OcrConfidence(ocr.confs)),
                                  extraction_method |-> "ocr"] @@ locals
                    /\ IF PoorOcr(Len(Strip(ocr.ocr_text)), ocr.confs)
                       THEN /\ record' = Some(ErrorResponse("SCANNED_PDF",
                                                  PoorOcrMessage(ocr.confs)))
                            /\ pc' = "done"
                       ELSE /\ pc' = "tables"
                            /\ UNCHANGED record
    /\ UNCHANGED <<call, text, lower_text, filename, tables, now, request, parserVars>>

\* the tables pdfplumber finds, in the format of the response
ExtractTables ==
    /\ pc = "tables"
    /\ calls' = Append(calls, "pdfplumber.open")
    /\ \E pages \in PlumberOutcomes : tables' = ModalTables(pages)
    /\ pc' = "parse"
    /\ UNCHANGED <<call, text, lower_text, filename, now, request, locals, parserVars,
                   record>>

\* parsed_data = parse_financial_data(full_text, tables, filename): the
\* classifier's constructor, which fails on a filename that is no string
StartParse ==
    /\ pc = "parse"
    /\ calls' = Append(calls, "parse_financial_data")
    /\ text' = locals.full_text
    /\ lower_text' = Lower(locals.full_text)
    /\ IF locals.filename.type = "str"
       THEN /\ filename' = locals.filename.value
            /\ pc' = "scoring"
       ELSE /\ pc' = "caught"
            /\ UNCHANGED filename
    /\ UNCHANGED <<call, tables, now, request, locals, parserVars, record>>

\* return {"success": True, "data": response_data}
Respond ==
    /\ pc = "response"
    /\ record' = Some(SuccessResponse(
                     ResponseData(locals.document_id, locals.filename, now, text, tables,
                                  locals, Val(record))))
    /\ pc' = "done"
    /\ UNCHANGED <<inputVars, parserVars>>

\* except Exception as e: UNKNOWN_ERROR with str(e)
Catch ==
    /\ pc = "caught"
    /\ record' = Some(ErrorResponse("UNKNOWN_ERROR", CaughtMessage(locals)))
    /\ pc' = "done"
    /\ UNCHANGED <<inputVars, parserVars>>

\* src/lib: result = extract_with_pdfplumber(pdf_bytes)
LibExtract ==
    /\ pc = "extract"
    /\ calls' = Append(calls, "extract_with_pdfplumber")
    /\ \E pdf \in LibPdfs, ms \in ElapsedMs : record' = Some(ExtractWithPdfplumber(pdf, ms))
    /\ pc' = "identify"
    /\ UNCHANGED <<call, text, lower_text, filename, tables, now, request, locals, parserVars>>

\* src/lib: a successful result gets document_id, filename and the time
LibReturn ==
    /\ pc = "identify"
    /\ record' = Some(WithIdentification(Val(record), locals.document_id, locals.filename, now))
    /\ pc' = "done"
    /\ UNCHANGED <<inputVars, parserVars>>

NextEndpoint ==
    \/ Validate \/ Decode \/ OpenPdf \/ Ocr \/ ExtractTables \/ StartParse
    \/ ScoreSignature \/ ClassifyOther \/ ClassifyMatched
    \/ ParseTaxYear
    \/ TextStrategy \/ TextOverflow \/ TableStrategy \/ TableOverflow \/ ReturnAmounts
    \/ ParseReturn
    \/ Respond \/ Catch
    \/ LibValidate \/ LibExtract \/ LibReturn

SpecEndpoint == InitEndpoint /\ [][NextEndpoint]_vars

\* ------------------------------------------------------------------------
\* Properties of DocumentClassifier.classify
\* ------------------------------------------------------------------------

Classified == classification # Null

RegistryIndices == 1..Len(DOCUMENT_SIGNATURES)

IndexOf(doc_type) == CHOOSE k \in RegistryIndices : DOCUMENT_SIGNATURES[k].doc_type = doc_type

\* the file name contains a hint of one of the signatures ds
HasHintOf(ds) ==
    \E d \in ds : \E h \in 1..Len(filename_hints[d]) :
        Contains(Lower(filename), filename_hints[d][h])

\* a pattern of one of the signatures ds occurs in the text
HasPatternOf(ds) ==
    \E d \in ds : \E p \in 1..Len(DOCUMENT_SIGNATURES[IndexOf(d)].patterns) :
        Matches(DOCUMENT_SIGNATURES[IndexOf(d)].patterns[p], lower_text)

HasRequiredFieldOf(ds) ==
    \E d \in ds : \E p \in 1..Len(DOCUMENT_SIGNATURES[IndexOf(d)].required_fields) :
        Contains(lower_text, DOCUMENT_SIGNATURES[IndexOf(d)].required_fields[p])

WholeWord(w) == Matches(Cat(<<WordBoundary, L(w), WordBoundary>>), lower_text)

\* C1: the confidence_score classify returns lies in [0,1], on the
\* matched-signature path and on the 'other' path.
C1_ConfidenceInUnitInterval ==
    Classified =>
        /\ 0 <= Val(classification).confidence_score
        /\ Val(classification).confidence_score <= ScoreOne

C1_Witness ==
    /\ Classified
    /\ Val(classification).document_type # "other"
    /\ Val(classification).confidence_score > 0
    /\ HasHintOf({Val(classification).document_type})

\* C2: the tax_year classify returns is null or an integer in [2015,2030],
\* from the balance-sheet 'as of' dates as from the generic year patterns.
C2_TaxYearNullOrInRange ==
    Classified =>
        \/ Val(classification).tax_year = Null
        \/ Val(Val(classification).tax_year) \in 2015..2030

C2_Witness ==
    /\ Classified
    /\ Val(classification).document_type = "balance_sheet"
    /\ Val(classification).tax_year = Some(2023)
    /\ Contains(lower_text, "as of december 31, 2023")

\* the text of C6: the three phrases, and a file name without any hint
C6_Case ==
    /\ Classified
    /\ Contains(text, "Form 1120-S")
    /\ Contains(lower_text, "compensation of officers")
    /\ Contains(lower_text, "ordinary business income")
    /\ ~HasHintOf(DocTypes)

\* C6 as stated: such a text is classified form_1120s / S-Corporation with
\* confidence_score >= 0.6.
C6_Original ==
    C6_Case =>
        /\ Val(classification).document_type = "form_1120s"
        /\ Val(classification).entity_type = "S-Corporation"
        /\ Val(classification).confidence_score >= Tenths(6)

\* C6 amended: when no pattern of another signature occurs in the text, such
\* a text is classified form_1120s / S-Corporation with confidence_score >= 0.3.
C6_Amended ==
    (C6_Case /\ ~HasPatternOf(DocTypes \ {"form_1120s"})) =>
        /\ Val(classification).document_type = "form_1120s"
        /\ Val(classification).entity_type = "S-Corporation"
        /\ Val(classification).confidence_score >= Tenths(3)

C6_Witness ==
    /\ C6_Case
    /\ ~HasPatternOf(DocTypes \ {"form_1120s"})
    /\ Val(classification).document_type = "form_1120s"
    /\ Val(classification).confidence_score = Tenths(3)

TaxFormTypes == {"form_1120s", "form_1120", "form_1065", "schedule_c", "va_form_500"}

\* the text of C7: a 'Balance Sheet' header, 'Assets' and 'Liabilities' as
\* whole words
C7_Case ==
    /\ Classified
    /\ Matches(DOCUMENT_SIGNATURES[IndexOf("balance_sheet")].patterns[1], lower_text)
    /\ WholeWord("assets")
    /\ WholeWord("liabilities")

\* C7 as stated: with no pattern of a tax form in the text, such a text is
\* classified balance_sheet with entity_type null.
C7_Original ==
    (C7_Case /\ ~HasPatternOf(TaxFormTypes)) =>
        /\ Val(classification).document_type = "balance_sheet"
        /\ Val(classification).entity_type = None

\* C7 amended: with no pattern of any other signature in the text and no hint
\* of another signature in the file name, such a text is classified
\* balance_sheet with entity_type null.
C7_Amended ==
    (/\ C7_Case
     /\ ~HasPatternOf(DocTypes \ {"balance_sheet"})
     /\ ~HasHintOf(DocTypes \ {"balance_sheet"})) =>
        /\ Val(classification).document_type = "balance_sheet"
        /\ Val(classification).entity_type = None

C7_Witness ==
    /\ C7_Case
    /\ ~HasPatternOf(DocTypes \ {"balance_sheet"})
    /\ ~HasHintOf(DocTypes \ {"balance_sheet"})
    /\ Val(classification).document_type = "balance_sheet"
    /\ Val(classification).entity_type = None

\* no pattern, required-field phrase, filename hint or structural signal
NoSignal ==
    /\ ~HasHintOf(DocTypes)
    /\ ~HasRequiredFieldOf(DocTypes)
    /\ \A w \in {"assets", "liabilities", "equity"} : ~WholeWord(w)
    /\ ~HasPatternOf(DocTypes)

\* C8: a text without any signal is classified 'other' with confidence_score
\* below 0.3, and its tax_year is null unless that year stands in the text.
C8_NoSignalIsOther ==
    (Classified /\ NoSignal) =>
        /\ Val(classification).document_type = "other"
        /\ Val(classification).confidence_score < Tenths(3)
        /\ Val(classification).tax_year # Null =>
               Contains(text, ToString(Val(Val(classification).tax_year)))

C8_Witness ==
    /\ Classified
    /\ NoSignal
    /\ Val(classification).document_type = "other"
    /\ Val(classification).tax_year = Some(2024)

MaxScore == CHOOSE m \in {scores[k].score : k \in 1..Len(scores)} :
                \A k \in 1..Len(scores) : scores[k].score <= m

\* C9: classify returns 'other' exactly when the greatest signature score is
\* below 0.3, then with that score as confidence_score and the generically
\* extracted year; otherwise document_type is a key of the registry.
C9_OtherIffBelowThreshold ==
    Classified =>
        /\ Val(classification).document_type = "other" <=> MaxScore < (3 * ScoreOne) \div 10
        /\ Val(classification).document_type = "other" =>
               /\ Val(classification).confidence_score = MaxScore
               /\ Val(classification).tax_year = ExtractYear(lower_text)
        /\ Val(classification).document_type # "other" =>
               Val(classification).document_type \in DocTypes

C9_Witness ==
    /\ Classified
    /\ Val(classification).document_type = "other"
    /\ Val(classification).confidence_score > 0
    /\ Val(classification).tax_year # Null

\* the number of the entries of a list that satisfy Holds
HowMany(list, Holds(_)) == Cardinality({k \in 1..Len(list) : Holds(list[k])})

PatternsFound(sig) == HowMany(sig.patterns, LAMBDA p : Matches(p, lower_text))

PhrasesFound(sig) == HowMany(sig.required_fields, LAMBDA f : Contains(lower_text, Lower(f)))

SignalsFound(sig) == HowMany(sig.structural_signals, LAMBDA w : WholeWord(w))

\* 0.3 for two structural keywords or more, 0.1 for exactly one, else 0
StructuralBonus(sig) ==
    IF SignalsFound(sig) >= 2 THEN Tenths(3)
    ELSE IF SignalsFound(sig) = 1 THEN Tenths(1) ELSE 0

\* a list without entries has nothing to be found
AtLeastOne(n) == IF n = 0 THEN 1 ELSE n

\* C21: the score of a signature is its weight times (0.4 x the fraction of
\* its patterns found + 0.2 if a filename hint occurs + 0.2 x the fraction of
\* its required phrases found + the structural bonus of 0.3 for two keywords
\* or more as whole words and 0.1 for exactly one); a signature of which
\* nothing is found scores exactly 0. (Both sides are taken times 10, the
\* number of patterns and the number of phrases: the weight is in tenths.)
C21_ScoreIsWeightedSum ==
    \A k \in 1..Len(scores) :
        LET sig == DOCUMENT_SIGNATURES[k]
            np == AtLeastOne(Len(sig.patterns))
            nr == AtLeastOne(Len(sig.required_fields))
            hint == IF HasHintOf({sig.doc_type}) THEN Tenths(2) ELSE 0
        IN  /\ scores[k].score * 10 * np * nr =
                   sig.weight * (Tenths(4) * PatternsFound(sig) * nr
                                 + hint * np * nr
                                 + Tenths(2) * PhrasesFound(sig) * np
                                 + StructuralBonus(sig) * np * nr)
            /\ (/\ PatternsFound(sig) = 0
                /\ hint = 0
                /\ PhrasesFound(sig) = 0
                /\ SignalsFound(sig) = 0) => scores[k].score = 0

\* the balance sheet signature with one of its two patterns, its hint and two
\* keywords: 0.8 x (0.2 + 0.2 + 0.3); the partnership signature with nothing
C21_Witness ==
    /\ Len(scores) = Len(DOCUMENT_SIGNATURES)
    /\ PatternsFound(DOCUMENT_SIGNATURES[IndexOf("balance_sheet")]) = 1
    /\ HasHintOf({"balance_sheet"})
    /\ SignalsFound(DOCUMENT_SIGNATURES[IndexOf("balance_sheet")]) = 2
    /\ scores[IndexOf("balance_sheet")].score * 100 = 56 * ScoreOne
    /\ scores[IndexOf("form_1065")].score = 0
    /\ \E k \in 1..Len(scores) : PhrasesFound(DOCUMENT_SIGNATURES[k]) = 1

\* the entries of the registry in its enumeration order
RegistryOrder == [k \in RegistryIndices |-> DOCUMENT_SIGNATURES[k].doc_type]

\* what _calculate_score found for a signature, one reason each
FoundOf(sig) ==
    PatternsFound(sig) + PhrasesFound(sig) + SignalsFound(sig)
        + (IF HasHintOf({sig.doc_type}) THEN 1 ELSE 0)

\* C22: the signature classify returns has the greatest score; of several
\* signatures with the greatest score it is the first in the order form_1120s,
\* form_1120, form_1065, schedule_c, va_form_500, balance_sheet,
\* income_statement; the reasons returned are those of that signature.
C22_FirstMaximalSelected ==
    /\ RegistryOrder = <<"form_1120s", "form_1120", "form_1065", "schedule_c",
                         "va_form_500", "balance_sheet", "income_statement">>
    /\ (Classified /\ Val(classification).document_type # "other") =>
           LET b == IndexOf(Val(classification).document_type)
           IN  /\ scores[b].score = MaxScore
               /\ \A k \in 1..(b - 1) : scores[k].score < MaxScore
               /\ Val(classification).classification_reasons = scores[b].reasons
               /\ Len(scores[b].reasons) = FoundOf(DOCUMENT_SIGNATURES[b])

\* schedule_c and balance_sheet both at 0.4: schedule_c is returned
C22_Witness ==
    /\ Classified
    /\ Val(classification).document_type = "schedule_c"
    /\ scores[IndexOf("balance_sheet")].score = MaxScore
    /\ MaxScore = Tenths(4)
    /\ Len(Val(classification).classification_reasons) = 3

\* the text has an occurrence of the pattern r, at any position, whose
\* captured year lies in [2015,2030]
OccursInRange(r) ==
    \E i \in 1..(Len(lower_text) + 1) :
        LET ms == Match(r, lower_text, i, NoGroup)
        IN  /\ ms # <<>>
            /\ ParseInt(SubSeq(lower_text, ms[1].g[1], ms[1].g[2] - 1)) \in MinYear..MaxYear

\* C23: whenever the text contains an occurrence of one of the year patterns
\* that captures a year in [2015,2030], the tax_year classify returns is not
\* null, also when an earlier occurrence captures a year out of that range.
C23_InRangeOccurrenceGivesYear ==
    (Classified /\ \E k \in 1..Len(YEAR_PATTERNS) : OccursInRange(YEAR_PATTERNS[k])) =>
        Val(classification).tax_year # Null

\* ------------------------------------------------------------------------
\* Properties of extract_amounts
\* ------------------------------------------------------------------------

Merging == call = "extract_amounts" /\ pc \in {"table_strategy", "done"}

Returned == call = "extract_amounts" /\ pc = "done"

\* the tables merged so far that yield the field
Yielding(field) == {k \in 1..Len(table_amounts) : field \in DOMAIN table_amounts[k]}

\* C4: a field the text strategy yields with a positive value holds exactly that
\* value in the merged map, after every table merged and at the return,
\* whatever the tables yield for it.
C4_TextValueKept ==
    Merging =>
        \A field \in DOMAIN text_amounts :
            text_amounts[field] > 0 =>
                field \in DOMAIN amounts /\ amounts[field] = text_amounts[field]

C4_Witness ==
    /\ Returned
    /\ \E field \in DOMAIN text_amounts :
          /\ text_amounts[field] > 0
          /\ amounts[field] = text_amounts[field]
          /\ \E j, k \in Yielding(field) :
                /\ table_amounts[j][field] # table_amounts[k][field]
                /\ table_amounts[j][field] # text_amounts[field]
                /\ table_amounts[k][field] # text_amounts[field]

\* C5: a field the text strategy does not yield and a table yields is in the
\* merged map extract_amounts returns, with the value of the first table that
\* yields it.
C5_TableValueFills ==
    Returned =>
        \A field \in UNION {DOMAIN table_amounts[k] : k \in 1..Len(table_amounts)} :
            field \notin DOMAIN text_amounts =>
                LET first == CHOOSE k \in Yielding(field) : \A j \in Yielding(field) : k <= j
                IN  field \in DOMAIN amounts /\ amounts[field] = table_amounts[first][field]

C5_Witness ==
    /\ Returned
    /\ text_amounts # NoAmounts
    /\ \E field \in DOMAIN amounts :
          /\ field \notin DOMAIN text_amounts
          /\ \E j, k \in Yielding(field) :
                /\ j < k
                /\ table_amounts[j][field] # table_amounts[k][field]
                /\ amounts[field] = table_amounts[j][field]

\* the number the pattern p captures in the text: the digits of its group,
\* 0 when it does not match or captures commas only
NumberOf(p) ==
    LET m == Search(p, lower_text)
        digits == IF m.found THEN ReplaceChars(m.group1, {","}, <<>>) ELSE ""
    IN  IF digits = "" THEN 0 ELSE ParseInt(digits)

TextDone == call = "extract_amounts" /\ pc # "text_strategy"

\* the call ended in the OverflowError of the text strategy
TextRaised == call = "extract_amounts" /\ pc = "raised" /\ TextRaises(text)

\* C24: for each canonical field the text strategy stores the value of the
\* first pattern, in the listed order, whose captured number is above 0; a
\* pattern that matches with 0 or with a number that fails to parse is
\* passed over (the strategy returns its map), a field without such a
\* pattern is absent, and every stored value is above 0.
C24_FirstPositivePatternWins ==
    TextDone =>
        /\ ~TextRaised
        /\ DOMAIN text_amounts \subseteq {AMOUNT_PATTERNS[k].field : k \in 1..Len(AMOUNT_PATTERNS)}
        /\ \A k \in 1..Len(AMOUNT_PATTERNS) :
               LET ps == AMOUNT_PATTERNS[k].patterns
                   field == AMOUNT_PATTERNS[k].field
                   winners == {j \in 1..Len(ps) : NumberOf(ps[j]) > 0}
               IN  IF winners = {} THEN field \notin DOMAIN text_amounts
                   ELSE /\ field \in DOMAIN text_amounts
                        /\ text_amounts[field] = NumberOf(ps[Least(winners)])
                        /\ text_amounts[field] > 0

\* the rows of the k-th table
RowsOfTable(k) == tables[k].rows

\* the cells of a row that are neither empty nor blank
Inked(row) == {c \in 1..Len(row) : Strip(row[c]) # ""}

\* the mappings whose label fragment the first inked cell of the row holds,
\* whatever the case of its letters
Fragments(row) ==
    IF Inked(row) = {} THEN {}
    ELSE {m \in 1..Len(field_mappings) : Contains(Lower(row[Least(Inked(row))]), field_mappings[m][1])}

\* the field a row can contribute to, None for a row of less than two cells
\* and for a row whose first inked cell holds no fragment: the field of the
\* first fragment, in mapping order, found in that cell
FieldOfRow(row) ==
    IF Len(row) < 2 \/ Fragments(row) = {} THEN None
    ELSE field_mappings[Least(Fragments(row))][2]

\* the rows of a table that contribute, each with its field and the number
\* taken from it
Contributions(rows) ==
    {<<r, FieldOfRow(rows[r]), Val(RowValue(rows[r])).value>> :
        r \in {x \in 1..Len(rows) : FieldOfRow(rows[x]) # None /\ RowValue(rows[x]) # Null}}

\* the rows of the k-th table that can contribute to the field
RowsFor(k, field) == {r \in 1..Len(RowsOfTable(k)) : FieldOfRow(RowsOfTable(k)[r]) = field}

\* what the contributions leave in the map of the table: for each field the
\* number of its lowest row
LeftBy(given, t_amounts) ==
    /\ DOMAIN t_amounts = {g[2] : g \in given}
    /\ \A g \in given :
           (\A h \in given : h[2] = g[2] => h[1] <= g[1]) => t_amounts[g[2]] = g[3]

\* C25: the map of a table holds exactly the fields of its rows of two or
\* more cells whose first non-empty cell contains a label fragment, each row
\* counting for the field of the first fragment in mapping order only, and
\* the rows are scanned from the top, so that the value of a field is that of
\* the lowest such row; a row of one cell, or whose cells are all empty,
\* gives nothing.
C25_RowGivesFirstMappedField ==
    (call = "extract_amounts" /\ table_amounts # <<>>) =>
        LeftBy(Contributions(RowsOfTable(Len(table_amounts))), table_amounts[Len(table_amounts)])

C25_Witness ==
    /\ Returned
    /\ \E k \in 1..Len(table_amounts) :
          /\ \E r \in RowsFor(k, "net_income") :
                /\ Cardinality(Fragments(RowsOfTable(k)[r])) = 2
                /\ table_amounts[k]["net_income"] = 8000
          /\ "cash" \notin DOMAIN table_amounts[k]
          /\ \E r \in 1..Len(RowsOfTable(k)) : RowsOfTable(k)[r] = <<"Note", "Inventory", "35">>
          /\ "inventory" \notin DOMAIN table_amounts[k]
          /\ \E r \in RowsFor(k, "depreciation") : Least(Inked(RowsOfTable(k)[r])) = 2
          /\ table_amounts[k]["depreciation"] = 1500
    /\ \E k \in 1..Len(table_amounts) :
          /\ \E r \in 1..Len(RowsOfTable(k)) :
                Len(RowsOfTable(k)[r]) = 1 /\ Fragments(RowsOfTable(k)[r]) # {}
          /\ "gross_receipts" \notin DOMAIN table_amounts[k]

\* the call ended in the OverflowError of the table strategy
TableRaised == call = "extract_amounts" /\ pc = "raised" /\ ~TextRaises(text)

\* the number in a cell, after the currency sign, the commas and the
\* parentheses are dealt with
NumberInCell(cell) ==
    ParseNumber(ReplaceChars(cell, {",", "$", ")"}, [c \in {"("} |-> "-"]))

\* the cells of a row that hold a number other than zero
NonZeroCells(row) ==
    {c \in 1..Len(row) :
        row[c] # "" /\ NumberInCell(row[c]).kind = "int" /\ NumberInCell(row[c]).value # 0}

\* the absolute value of the right-most cell of the row holding a number
\* other than zero
RightMost(row) == Abs(NumberInCell(row[Greatest(NonZeroCells(row))]).value)

\* the map of a table holds, for each field, the right-most number of a row
\* of that field, and every row of a field with a number is in it
StoredFrom(rows, t_amounts) ==
    /\ \A field \in DOMAIN t_amounts :
           \E r \in 1..Len(rows) :
               /\ FieldOfRow(rows[r]) = field
               /\ NonZeroCells(rows[r]) # {}
               /\ t_amounts[field] = RightMost(rows[r])
    /\ \A r \in 1..Len(rows) :
           (FieldOfRow(rows[r]) # None /\ NonZeroCells(rows[r]) # {}) =>
               FieldOfRow(rows[r]) \in DOMAIN t_amounts

\* C26: for a matched row the table strategy stores the absolute value of the
\* right-most cell that parses to a number other than zero; a cell that
\* parses to zero or does not parse is passed over (the strategy goes on and
\* returns its map), and a row without such a cell stores nothing.
C26_RightMostNumberStored ==
    call = "extract_amounts" =>
        /\ ~TableRaised
        /\ table_amounts # <<>> =>
               StoredFrom(RowsOfTable(Len(table_amounts)), table_amounts[Len(table_amounts)])

\* what the rows of a table give: the place of each row of a field that has
\* a number other than zero, with the field and the right-most such number
GivenBy(rows) ==
    {<<r, FieldOfRow(rows[r]), RightMost(rows[r])>> :
        r \in {x \in 1..Len(rows) : FieldOfRow(rows[x]) # None /\ NonZeroCells(rows[x]) # {}}}

\* what the tables merged so far give, each with the place of its table
GivenByTables ==
    UNION {{<<k, g[1], g[2], g[3]>> : g \in GivenBy(RowsOfTable(k))} : k \in 1..Len(table_amounts)}

\* g is of the first table that gives its field, and of the last row of that
\* table that does
Decides(g, given) ==
    \A h \in given :
        h[3] = g[3] => (g[1] < h[1] \/ (g[1] = h[1] /\ h[2] <= g[2]))

\* the merged map holds, for every field the text lacks, the value of the
\* last row of the first table that gives the field, and no field that none
\* gives
FirstTableWins(given, t_amounts, merged) ==
    /\ \A g \in given :
           g[3] \notin DOMAIN t_amounts =>
               /\ g[3] \in DOMAIN merged
               /\ Decides(g, given) => merged[g[3]] = g[4]
    /\ \A field \in DOMAIN merged :
           field \notin DOMAIN t_amounts => \E g \in given : g[3] = field

\* C29: for a field absent from the text, the merged value is that of the
\* first table, in list order, that yields the field, after that table is
\* merged and after every later one; the value a table yields is that of its
\* last matching row with a non-zero numeric cell.
C29_FirstTableLastRow ==
    Merging => FirstTableWins(GivenByTables, text_amounts, amounts)

C29_Witness ==
    /\ Returned
    /\ Len(tables) = 2
    /\ "total_assets" \notin DOMAIN text_amounts
    /\ <<1, "total_assets", 520000>> \in GivenBy(RowsOfTable(1))
    /\ <<3, "total_assets", 525000>> \in GivenBy(RowsOfTable(1))
    /\ <<1, "total_assets", 510000>> \in GivenBy(RowsOfTable(2))
    /\ amounts["total_assets"] = 525000

\* ------------------------------------------------------------------------
\* Properties of BalanceSheetExtractor.extract
\* ------------------------------------------------------------------------

Extracted == call = "BalanceSheetExtractor.extract" /\ record # Null

\* the text shows no year to the extractor: no 'as of' date and no 20dd
NoYearShown ==
    /\ \A k \in 1..Len(balance_date_patterns) : ~Matches(balance_date_patterns[k], lower_text)
    /\ ~Matches(Cat(<<L("20"), Times(In(Digit), 2, 2)>>), text)

\* C3: the tax_year of the result of BalanceSheetExtractor.extract is null or
\* in [2015,2030], and null when the text shows no year.
C3_RecordYearNullOrInRange ==
    Extracted =>
        LET year == Val(record).tax_year
        IN  /\ year = Null \/ Val(year) \in MinYear..MaxYear
            /\ NoYearShown => year = Null

\* x <= 0 of a float
NotAboveZero(x) == x.kind # "nan" /\ x.value <= 0

\* C10: in every result, net_fixed_assets is fixed_assets_gross plus
\* accumulated_depreciation, and accumulated_depreciation is not positive.
C10_NetIsGrossPlusDepreciation ==
    Extracted =>
        LET sheet == Val(record).balance_sheet_data
        IN  /\ FloatEq(sheet.net_fixed_assets,
                       FloatAdd(sheet.fixed_assets_gross, sheet.accumulated_depreciation))
            /\ NotAboveZero(sheet.accumulated_depreciation)

\* ------------------------------------------------------------------------
\* Properties of the sections of BalanceSheetExtractor.extract
\* ------------------------------------------------------------------------

\* the accounts that are signed by intent
ContraAccounts == {"accumulated_depreciation", "retained_earnings"}

\* the sections of a result that hold amounts
AmountSections == {"balance_sheet_data", "owner_info", "covid_adjustments"}

\* C14: in a result of BalanceSheetExtractor.extract no amount other than
\* accumulated_depreciation and retained_earnings is negative.
C14_OnlyContraAccountsNegative ==
    Extracted =>
        \A section \in AmountSections :
            \A leaf \in DOMAIN Val(record)[section] :
                leaf \notin ContraAccounts => ~Negative(Val(record)[section][leaf])

\* the labels of the red flags of a result
FlagLabels == {Val(record).red_flags[i][1] : i \in DOMAIN Val(record).red_flags}

\* C17: a result carries the red flag 'Loans to shareholders' exactly when its
\* loans_to_shareholders is above 0, the red flag 'Negative retained earnings'
\* exactly when its retained_earnings is below 0, each at most once and with
\* the amount, and no other red flag.
C17_RedFlagsExactly ==
    Extracted =>
        LET loans == Val(record).owner_info.loans_to_shareholders
            retained == Val(record).balance_sheet_data.retained_earnings
        IN  Val(record).red_flags =
                (IF Positive(loans) THEN <<<<"Loans to shareholders", loans>>>> ELSE <<>>)
                \o (IF Negative(retained)
                    THEN <<<<"Negative retained earnings", retained>>>> ELSE <<>>)

\* both flags raised: a loan to a shareholder and negative retained earnings
C17_Witness ==
    /\ Extracted
    /\ FlagLabels = {"Loans to shareholders", "Negative retained earnings"}
    /\ Positive(Val(record).owner_info.loans_to_shareholders)
    /\ Negative(Val(record).balance_sheet_data.retained_earnings)

\* the notes of a result
NotesOf(result) == {result.extraction_notes[i] : i \in DOMAIN result.extraction_notes}

\* C18: a result with a non-zero eidl_loan has the note 'EIDL Loan detected'
\* for that balance, and one with a non-zero ppp_loan the note 'PPP Loan
\* detected' for that balance, whether the text or a table gave the balance.
C18_LoanHasItsNote ==
    Extracted =>
        LET sheet == Val(record).balance_sheet_data
        IN  /\ Truthy(sheet.eidl_loan) =>
                   <<"EIDL Loan detected", sheet.eidl_loan>> \in NotesOf(Val(record))
            /\ Truthy(sheet.ppp_loan) =>
                   <<"PPP Loan detected", sheet.ppp_loan>> \in NotesOf(Val(record))

\* an EIDL balance that only a table gave, and a PPP balance the text gave
C18_Witness ==
    /\ Extracted
    /\ ~Matches(L("eidl"), lower_text)
    /\ Truthy(Val(record).balance_sheet_data.eidl_loan)
    /\ Truthy(Val(record).balance_sheet_data.ppp_loan)
    /\ Matches(L("ppp"), lower_text)

\* the match of the retained earnings in the text: that of the first of the
\* re_patterns that matches
RetainedMatch ==
    LET plain == Search(re_patterns[1].pattern, lower_text)
    IN  IF plain.found THEN plain ELSE Search(re_patterns[2].pattern, lower_text)

\* the text the match covers
MatchedText(m) == SubSeq(lower_text, m.start, m.end - 1)

\* the text shows retained earnings above zero, with no parenthesis and no
\* minus sign
ShownPositive(m) ==
    /\ m.found
    /\ ~Contains(MatchedText(m), "(")
    /\ ~Contains(MatchedText(m), "-")
    /\ Positive(OrZero(ParseAmount(m.group1)))

\* C27: retained earnings are stored as negative only when the matched text
\* shows the value in parentheses: a result for a text that shows them above
\* zero without parentheses, as 'Retained Earnings 50,000' does, has that
\* amount as retained_earnings and no red flag 'Negative retained earnings'.
C27_PlainRetainedEarningsPositive ==
    (Extracted /\ ShownPositive(RetainedMatch)) =>
        /\ Val(record).balance_sheet_data.retained_earnings = OrZero(ParseAmount(RetainedMatch.group1))
        /\ "Negative retained earnings" \notin FlagLabels

\* the entries of a list are all different
NoDuplicates(list) == \A i, j \in DOMAIN list : list[i] = list[j] => i = j

\* C28: notes and flags are local to one extraction. A result that was
\* returned is not changed by what is done with the extractor afterwards
\* (extract, add_note, add_red_flag), and a further extract() returns a
\* result equal to the first, its notes and flags without duplicates.
C28_ResultsKeepTheirLists ==
    [][(call = "BalanceSheetExtractor.extract" /\ record # Null) =>
          /\ Val(record') = Val(record)
          /\ Len(record') > Len(record) =>
                 /\ record'[Len(record')] = Val(record)
                 /\ NoDuplicates(record'[Len(record')].red_flags)
                 /\ NoDuplicates(record'[Len(record')].extraction_notes)]_vars

\* ------------------------------------------------------------------------
\* Properties of VirginiaForm500Extractor.extract
\* ------------------------------------------------------------------------

VirginiaExtracted == call = "VirginiaForm500Extractor.extract" /\ record # Null

\* the percentage the text gives for the apportionment: that of the first
\* pattern whose match is a number, Null if there is none
MatchedPercentage ==
    FirstSome([k \in 1..Len(multi_factor_patterns) |->
                  AmountOfMatch(Search(multi_factor_patterns[k], lower_text))])

NoneOrZero(percentage) == percentage = Null \/ FloatEq(Val(percentage), Zero)

\* the labels of the notes of a result
NoteLabels(result) == {result.extraction_notes[i][1] : i \in DOMAIN result.extraction_notes}

\* C16: the apportionment_percentage of a result is never 0, and when the
\* text gives no percentage or gives 0, it is 100 and the result has no
\* 'Multi-state apportionment' note.
C16_NoPercentageIsWhole ==
    VirginiaExtracted =>
        /\ ~FloatEq(Val(record).income_data.apportionment_percentage, Zero)
        /\ NoneOrZero(MatchedPercentage) =>
               /\ Val(record).income_data.apportionment_percentage = WholePercentage
               /\ "Multi-state apportionment" \notin NoteLabels(Val(record))

\* a return whose Schedule 500A shows 0%
C16_Witness ==
    /\ VirginiaExtracted
    /\ MatchedPercentage = Some(Zero)
    /\ Val(record).income_data.apportionment_percentage = WholePercentage

\* ------------------------------------------------------------------------
\* Properties of the numeric parsing
\* ------------------------------------------------------------------------

Converted == call \in {"_parse_amount", "extract_amount"} /\ pc = "done"

\* the float a call of either function returned, Null for None
ReturnedAmount == IF call = "_parse_amount" THEN Val(record) ELSE record

\* C19: however the whole number n is written, with or without '$' and
\* thousands separators, both functions return n; written in parentheses,
\* both return -n.
C19_DecorationIgnored ==
    Converted =>
        \A n \in PlainNumbers :
            /\ text \in Decorations(n) => ReturnedAmount = Some(Num(n * AmountScale))
            /\ text \in Parenthesized(n) => ReturnedAmount = Some(Num(0 - n * AmountScale))

\* "$1,234,567" parsed by _parse_amount, and "(5,000)" by extract_amount
C19_Witness ==
    /\ Converted
    /\ \/ call = "_parse_amount" /\ text = "$1,234,567"
          /\ Val(record) = Some(Num(1234567 * AmountScale))
       \/ call = "extract_amount" /\ text = "(5,000)"
          /\ Val(record) = Num(0 - 5000 * AmountScale)

\* ------------------------------------------------------------------------
\* Properties of parse_financial_data
\* ------------------------------------------------------------------------

\* parse_financial_data has returned its record
Parsed == call = "parse_financial_data" /\ pc = "done"

\* C11: a document classified balance_sheet or va_form_500 is handed to its
\* specialized extractor, so that the generic field extraction
\* (extract_amounts) is entered only for documents of the other types.
C11_SpecializedDispatch ==
    (call = "parse_financial_data" /\ pc \in {"text_strategy", "table_strategy"}) =>
        Val(classification).document_type \notin {"balance_sheet", "va_form_500"}

\* C12: no call of the core ends in an exception: whatever the cells of the
\* tables hold, the call goes on to return a value.
C12_NoExceptionEscapes == pc # "raised"

\* the keys of the record and of its nested records
TopLevelKeys ==
    {"document_type", "entity_type", "tax_year", "company_info", "income_statement",
     "expenses", "balance_sheet", "schedule_k", "owner_info", "covid_adjustments",
     "classification"}

SectionKeys ==
    [income_statement |->
         {"gross_receipts_sales", "returns_allowances", "cost_of_goods_sold", "gross_profit",
          "total_income", "total_deductions", "taxable_income", "net_income"},
     expenses |->
         {"compensation_of_officers", "salaries_wages", "repairs_maintenance", "bad_debts",
          "rents", "taxes_licenses", "interest", "depreciation", "depletion", "advertising",
          "pension_profit_sharing", "employee_benefits", "other_deductions"},
     balance_sheet |->
         {"total_assets", "cash", "accounts_receivable", "inventory", "fixed_assets",
          "accumulated_depreciation", "other_assets", "total_liabilities", "accounts_payable",
          "loans_payable", "other_liabilities", "retained_earnings", "total_equity",
          "boy_total_assets", "boy_total_liabilities", "boy_cash", "boy_accounts_receivable",
          "boy_inventory", "eoy_total_assets", "eoy_total_liabilities", "eoy_cash",
          "eoy_accounts_receivable", "eoy_inventory", "eoy_retained_earnings"},
     schedule_k |->
         {"section_179_deduction", "charitable_contributions", "capital_gains",
          "capital_gains_short", "capital_gains_long", "total_distributions",
          "distributions_cash", "distributions_property"},
     owner_info |->
         {"owner_compensation", "guaranteed_payments", "distributions",
          "loans_to_shareholders", "loans_from_shareholders"},
     covid_adjustments |->
         {"ppp_loan_forgiveness", "eidl_advances", "employee_retention_credit"},
     company_info |->
         {"business_name", "ein", "entity_type", "naics_code", "business_activity",
          "fiscal_year_end", "accounting_method"},
     classification |->
         {"document_type_internal", "jurisdiction", "confidence_score",
          "classification_reasons"}]

\* the leaves of the numeric sections, as <<section, leaf>> indices
NumericLeaves ==
    UNION {{<<k, j>> : j \in DOMAIN record_sections[k].leaves} : k \in DOMAIN record_sections}

\* C13: the record has the fixed set of top-level and nested keys, and every
\* numeric leaf none of whose fields is in the merged map is 0.
C13_FixedShapeZeroDefaults ==
    Parsed =>
        LET r == Val(record)
        IN  /\ DOMAIN r = TopLevelKeys
            /\ \A s \in DOMAIN SectionKeys : DOMAIN r[s] = SectionKeys[s]
            /\ \A kj \in NumericLeaves :
                   LET section == record_sections[kj[1]]
                       entry == section.leaves[kj[2]]
                   IN  (\A n \in DOMAIN entry.keys : entry.keys[n] \notin DOMAIN amounts)
                           => r[section.section][entry.leaf] = 0

\* a record with an extracted leaf, a leaf read from its second field and
\* leaves left at 0
C13_Witness ==
    /\ Parsed
    /\ Val(record).income_statement.gross_receipts_sales > 0
    /\ Val(record).balance_sheet.eoy_total_assets > 0
    /\ Val(record).balance_sheet.cash = 0
    /\ Val(record).expenses.rents = 0
    /\ "cash" \notin DOMAIN amounts

\* C15: the record is the same at whatever time the call is made: its year
\* is the year a call at any other time would have given.
C15_IndependentOfTheClock ==
    Parsed =>
        \A y \in ClockYears :
            Val(record).tax_year = YearOr(Val(classification).tax_year, ExtractTaxYear(text, y))

\* ------------------------------------------------------------------------
\* Properties of the extract_pdf endpoints
\* ------------------------------------------------------------------------

\* an endpoint has returned its response
Responded == call \in Endpoints /\ pc = "done"

\* the request has no pdf_base64: the key is absent, or it holds null or ""
WithoutPdf ==
    "pdf_base64" \notin DOMAIN request \/ request.pdf_base64 \in {JsonNull, JsonStr("")}

\* values of pdf_base64 that are no base64 text: a number, a text whose
\* padding is missing, a text with one data character
Undecodable == {JsonInt(42), JsonStr("JVBERg"), JsonStr("A===")}

\* the library calls that decode the input or open the PDF
OpeningCalls == {"fitz.open", "convert_from_bytes", "pdfplumber.open", "extract_with_pdfplumber"}

CallsMade == {calls[k] : k \in DOMAIN calls}

\* {success: true, data} or {success: false, error: {code, message}}
WellFormed(response) ==
    \/ /\ DOMAIN response = {"success", "data"}
       /\ response.success = TRUE
    \/ /\ DOMAIN response = {"success", "error"}
       /\ response.success = FALSE
       /\ DOMAIN response.error = {"code", "message"}

\* the response is the error with one of the codes
Rejected(response, codes) ==
    /\ "error" \in DOMAIN response
    /\ response.error.code \in codes

ModalAnswered == Responded /\ call = "extract_pdf" /\ "is_scanned" \in DOMAIN locals

\* the OCR ran to its end and read enough: MinOcrChars characters or more,
\* at a mean confidence of MinOcrConfidence or more
GoodOcr ==
    /\ "convert_from_bytes" \in CallsMade
    /\ locals.ocr_confidence # Null
    /\ Len(Strip(locals.full_text)) >= MinOcrChars
    /\ Val(locals.ocr_confidence).kind = "num"
    /\ Val(locals.ocr_confidence).value >= MinOcrConfidence * AmountScale

\* the metadata of a success response
Metadata == Val(record).data.metadata

\* C30: in src/modal a document found to be scanned (under ScannedThreshold
\* characters per page on average) is answered by success only after the
\* OCR ran and gave at least MinOcrChars characters at a confidence of at
\* least MinOcrConfidence, and by SCANNED_PDF when the OCR failed or gave
\* less; in every success response extraction_method is 'ocr' exactly when
\* is_scanned is true, and ocr_confidence is not null exactly when
\* is_scanned is true.
C30_ScannedNeedsGoodOcr ==
    ModalAnswered =>
        /\ (locals.is_scanned /\ Val(record).success) => GoodOcr
        /\ (locals.is_scanned /\ ~GoodOcr) => Rejected(Val(record), {"SCANNED_PDF"})
        /\ Val(record).success =>
               /\ Metadata.is_scanned = locals.is_scanned
               /\ Metadata.extraction_method \in {"ocr", "pdfplumber"}
               /\ Metadata.extraction_method = "ocr" <=> Metadata.is_scanned
               /\ Metadata.ocr_confidence # Null <=> Metadata.is_scanned

\* a scanned document read by OCR at a confidence of MinOcrConfidence
\* exactly is answered by success
C30_Witness ==
    /\ ModalAnswered
    /\ Val(record).success
    /\ Metadata.is_scanned
    /\ Metadata.extraction_method = "ocr"
    /\ Metadata.ocr_confidence = Some(Num(MinOcrConfidence * AmountScale))
    /\ Len(Strip(locals.full_text)) >= MinOcrChars

====
